---- MODULE Spec2Model ----
(***************************************************************************)
(* Quiz Forge backend (backend/app/main.py, models.py, schemas.py,         *)
(* quiz_generation.py): the persisted users, quizzes and answers, the      *)
(* request handlers that change them, and the pure helpers they call.      *)
(*                                                                         *)
(* JSON objects (Python dicts) are functions whose DOMAIN is the set of    *)
(* keys present, so dict.get, setdefault and pop are domain operations.    *)
(* A nullable column holds None (the empty tuple) or Some(v) (a 1-tuple).  *)
(* Text is a sequence of string pieces whose concatenation is the text:    *)
(* request prompts are given character by character, template literals are *)
(* single pieces.                                                          *)
(***************************************************************************)
EXTENDS Integers, Sequences, FiniteSets, TLC

VARIABLES users, quizzes, answers, pc, req, clock, resp, mem

vars == <<users, quizzes, answers, pc, req, clock, resp, mem>>

db == <<users, quizzes, answers>>

(***************************************************************************)
(* Bounds of the model.                                                    *)
(***************************************************************************)
MaxUsers == 2
MaxQuizzes == 1
MaxClock == 1

(* The concurrent request workers (one database session each). *)
Procs == {1, 2}

(***************************************************************************)
(* Program constants.                                                      *)
(***************************************************************************)
RequiredQuestions == 5
RequiredOptions == 4
OptionKeys == {"A", "B", "C", "D"}

None == <<>>
Some(v) == <<v>>
IsNone(o) == o = <<>>
Get(o) == o[1]

(* dict.get(key) is not None for the documents of the model *)
Has(d, k) == k \in DOMAIN d

(***************************************************************************)
(* HTTP error details.                                                     *)
(***************************************************************************)
ErrNonEmpty == "quiz_content must include a non-empty questions array"
ErrFiveQuestions == "quiz_content must include exactly 5 questions"
ErrFourOptions == "each question must include 4 options"
ErrKeyText == "each option must include a key and text"
ErrUniqueKeys == "options must use unique keys A-D"
ErrCorrectKey == "correct_option_key must match one of the option keys"

(***************************************************************************)
(* normalize_quiz_content                                                  *)
(***************************************************************************)
SeqToSet(s) == {s[i] : i \in DOMAIN s}

OptionKeySeq(options) == [i \in DOMAIN options |-> options[i].key]

OptionIsBad(option) ==
    \/ ~Has(option, "key")
    \/ ~Has(option, "text")
    \/ option.key = ""
    \/ option.text = <<>>

(* the checks of the loop body without the one of correct_option_key *)
QuestionErrorNoCorrectKey(question) ==
    IF ~Has(question, "options") \/ Len(question.options) # RequiredOptions
    THEN ErrFourOptions
    ELSE IF \E i \in DOMAIN question.options : OptionIsBad(question.options[i])
    THEN ErrKeyText
    ELSE IF \/ Cardinality(SeqToSet(OptionKeySeq(question.options))) # 4
            \/ SeqToSet(OptionKeySeq(question.options)) # OptionKeys
    THEN ErrUniqueKeys
    ELSE ""

(* correct_option_key checked to be present only *)
QuestionErrorCorrectKeyPresent(question) ==
    IF ~Has(question, "options") \/ Len(question.options) # RequiredOptions
    THEN ErrFourOptions
    ELSE IF \E i \in DOMAIN question.options : OptionIsBad(question.options[i])
    THEN ErrKeyText
    ELSE IF \/ Cardinality(SeqToSet(OptionKeySeq(question.options))) # 4
            \/ SeqToSet(OptionKeySeq(question.options)) # OptionKeys
    THEN ErrUniqueKeys
    ELSE IF ~Has(question, "correct_option_key")
    THEN ErrCorrectKey
    ELSE ""

(* the keys checked to be four distinct ones only *)
QuestionErrorFourDistinctKeys(question) ==
    IF ~Has(question, "options") \/ Len(question.options) # RequiredOptions
    THEN ErrFourOptions
    ELSE IF \E i \in DOMAIN question.options : OptionIsBad(question.options[i])
    THEN ErrKeyText
    ELSE IF Cardinality(SeqToSet(OptionKeySeq(question.options))) # 4
    THEN ErrUniqueKeys
    ELSE IF \/ ~Has(question, "correct_option_key")
            \/ question.correct_option_key
                   \notin SeqToSet(OptionKeySeq(question.options))
    THEN ErrCorrectKey
    ELSE ""

(* the check of the number of options left out *)
QuestionErrorAnyOptionCount(question) ==
    IF ~Has(question, "options")
    THEN ErrFourOptions
    ELSE IF \E i \in DOMAIN question.options : OptionIsBad(question.options[i])
    THEN ErrKeyText
    ELSE IF \/ Cardinality(SeqToSet(OptionKeySeq(question.options))) # 4
            \/ SeqToSet(OptionKeySeq(question.options)) # OptionKeys
    THEN ErrUniqueKeys
    ELSE IF \/ ~Has(question, "correct_option_key")
            \/ question.correct_option_key
                   \notin SeqToSet(OptionKeySeq(question.options))
    THEN ErrCorrectKey
    ELSE ""

(* The first check of the loop body that question fails, "" when none. *)
QuestionError(question) ==
    IF ~Has(question, "options") \/ Len(question.options) # RequiredOptions
    THEN ErrFourOptions
    ELSE IF \E i \in DOMAIN question.options : OptionIsBad(question.options[i])
    THEN ErrKeyText
    ELSE IF \/ Cardinality(SeqToSet(OptionKeySeq(question.options))) # 4
            \/ SeqToSet(OptionKeySeq(question.options)) # OptionKeys
    THEN ErrUniqueKeys
    ELSE IF \/ ~Has(question, "correct_option_key")
            \/ question.correct_option_key
                   \notin SeqToSet(OptionKeySeq(question.options))
    THEN ErrCorrectKey
    ELSE ""

(* item["index"] = idx *)
SetIndex(question, idx) ==
    [k \in DOMAIN question \cup {"index"} |->
        IF k = "index" THEN idx ELSE question[k]]

(* item.setdefault("index", idx) *)
SetDefaultIndex(question, idx) ==
    IF Has(question, "index") THEN question ELSE question @@ ("index" :> idx)

NormalizedQuestions(questions) ==
    [i \in DOMAIN questions |-> SetDefaultIndex(questions[i], i)]

Ok(v) == [ok |-> TRUE, value |-> v]
Fail(code, detail) == [ok |-> FALSE, code |-> code, detail |-> detail]

(* the length check written as "fewer than 5" *)
normalize_quiz_content_at_least(quiz_content) ==
    IF ~Has(quiz_content, "questions") \/ quiz_content.questions = <<>>
    THEN Fail(400, ErrNonEmpty)
    ELSE IF Len(quiz_content.questions) < RequiredQuestions
    THEN Fail(400, ErrFiveQuestions)
    ELSE LET questions == quiz_content.questions
             bad == {i \in DOMAIN questions : QuestionError(questions[i]) # ""}
         IN  IF bad # {}
             THEN Fail(400, QuestionError(
                      questions[CHOOSE i \in bad : \A j \in bad : i <= j]))
             ELSE Ok([quiz_content EXCEPT
                         !.questions = NormalizedQuestions(questions)])

normalize_quiz_content(quiz_content) ==
    IF ~Has(quiz_content, "questions") \/ quiz_content.questions = <<>>
    THEN Fail(400, ErrNonEmpty)
    ELSE IF Len(quiz_content.questions) # RequiredQuestions
    THEN Fail(400, ErrFiveQuestions)
    ELSE LET questions == quiz_content.questions
             bad == {i \in DOMAIN questions : QuestionError(questions[i]) # ""}
         IN  IF bad # {}
             THEN Fail(400, QuestionError(
                      questions[CHOOSE i \in bad : \A j \in bad : i <= j]))
             ELSE Ok([quiz_content EXCEPT
                         !.questions = NormalizedQuestions(questions)])

(***************************************************************************)
(* build_quiz_public                                                       *)
(***************************************************************************)
Pop(d, keys) == [k \in DOMAIN d \ keys |-> d[k]]

(* the explanation left in *)
RedactKeyOnly(question) == Pop(question, {"correct_option_key"})

RedactQuestion(question) == Pop(question, {"correct_option_key", "explanation"})

build_quiz_public(quiz_content) ==
    IF Has(quiz_content, "questions")
    THEN [quiz_content EXCEPT
             !.questions = [i \in DOMAIN quiz_content.questions |->
                                RedactQuestion(quiz_content.questions[i])]]
    ELSE quiz_content

(***************************************************************************)
(* question_by_index: the first question whose index equals the argument.  *)
(***************************************************************************)
MatchingPositions(quiz_content, question_index) ==
    {i \in DOMAIN quiz_content.questions :
        /\ Has(quiz_content.questions[i], "index")
        /\ quiz_content.questions[i].index = question_index}

(* the last question returned when none matches *)
question_by_index_or_last(quiz_content, question_index) ==
    LET m == MatchingPositions(quiz_content, question_index)
    IN  IF m = {}
        THEN Ok(quiz_content.questions[Len(quiz_content.questions)])
        ELSE Ok(quiz_content.questions[CHOOSE i \in m : \A j \in m : i <= j])

question_by_index(quiz_content, question_index) ==
    LET m == MatchingPositions(quiz_content, question_index)
    IN  IF m = {}
        THEN Fail(400, "question_index not found")
        ELSE Ok(quiz_content.questions[CHOOSE i \in m : \A j \in m : i <= j])

(***************************************************************************)
(* Characters and text helpers (str.strip, str.split, str.lower, in).      *)
(***************************************************************************)
UpperCase == <<"A", "B", "C", "D", "E", "F", "G", "H", "I", "J", "K", "L", "M", "N", "O", "P", "Q", "R", "S", "T", "U", "V", "W", "X", "Y", "Z">>
LowerCase == <<"a", "b", "c", "d", "e", "f", "g", "h", "i", "j", "k", "l", "m", "n", "o", "p", "q", "r", "s", "t", "u", "v", "w", "x", "y", "z">>
Digits == {"0", "1", "2", "3", "4", "5", "6", "7", "8", "9"}
Whitespace == {" ", "\t", "\n"}

(* the characters matched by the class [A-Za-z0-9-] *)
WordChars == SeqToSet(UpperCase) \cup SeqToSet(LowerCase) \cup Digits \cup {"-"}

LowerChar(c) ==
    IF \E i \in DOMAIN UpperCase : UpperCase[i] = c
    THEN LowerCase[CHOOSE i \in DOMAIN UpperCase : UpperCase[i] = c]
    ELSE c

(* str.lower of a text given character by character *)
Lower(text) == [i \in DOMAIN text |-> LowerChar(text[i])]

RECURSIVE LStrip(_)
LStrip(text) ==
    IF text # <<>> /\ Head(text) \in Whitespace THEN LStrip(Tail(text)) ELSE text

RECURSIVE RStrip(_)
RStrip(text) ==
    IF text # <<>> /\ text[Len(text)] \in Whitespace
    THEN RStrip(SubSeq(text, 1, Len(text) - 1))
    ELSE text

(* str.strip() *)
Strip(text) == RStrip(LStrip(text))

(* str.split(): the maximal runs of non-whitespace characters, in order *)
RECURSIVE SplitFrom(_, _, _)
SplitFrom(text, i, word) ==
    IF i > Len(text)
    THEN IF word = <<>> THEN <<>> ELSE <<word>>
    ELSE IF text[i] \in Whitespace
    THEN IF word = <<>>
         THEN SplitFrom(text, i + 1, <<>>)
         ELSE <<word>> \o SplitFrom(text, i + 1, <<>>)
    ELSE SplitFrom(text, i + 1, Append(word, text[i]))

Split(text) == SplitFrom(text, 1, <<>>)

(* " ".join(words) *)
RECURSIVE JoinWords(_)
JoinWords(words) ==
    IF words = <<>> THEN <<>>
    ELSE IF Len(words) = 1 THEN words[1]
    ELSE words[1] \o <<" ">> \o JoinWords(Tail(words))

(* needle in haystack *)
Contains(haystack, needle) ==
    \E i \in 1..(Len(haystack) - Len(needle) + 1) :
        SubSeq(haystack, i, i + Len(needle) - 1) = needle

(***************************************************************************)
(* validate_quiz_prompt                                                    *)
(***************************************************************************)
ErrPrompt == "prompt must be 1-3 words"

(* the pattern written with the word class, which also matches "_" *)
WordMatchesWordClass(word) ==
    word # <<>> /\ \A i \in DOMAIN word : word[i] \in WordChars \cup {"_"}

(* re.fullmatch(r"[A-Za-z0-9-]+", word) *)
WordMatches(word) == word # <<>> /\ \A i \in DOMAIN word : word[i] \in WordChars

validate_quiz_prompt(prompt) ==
    LET cleaned == Strip(prompt)
        words == Split(cleaned)
    IN  IF cleaned = <<>>
        THEN Fail(400, ErrPrompt)
        ELSE IF Len(words) < 1 \/ Len(words) > 3
        THEN Fail(400, ErrPrompt)
        ELSE IF \E i \in DOMAIN words : ~WordMatches(words[i])
        THEN Fail(400, ErrPrompt)
        ELSE Ok(JoinWords(words))

(***************************************************************************)
(* build_placeholder_quiz_content                                          *)
(***************************************************************************)
Option(k, text) == [key |-> k, text |-> text]

PlaceholderQuestion(prompt, a, b, c, d, correct, explanation) ==
    [prompt |-> prompt,
     options |-> <<Option("A", a), Option("B", b), Option("C", c), Option("D", d)>>,
     correct_option_key |-> correct,
     explanation |-> <<explanation>>]

build_placeholder_quiz_content(prompt) ==
    LET topic == IF Strip(prompt) = <<>> THEN <<"General Knowledge">>
                 ELSE Strip(prompt)
    IN  [title |-> topic \o <<" Placeholder Quiz">>,
         questions |-> <<
           PlaceholderQuestion(
             <<"Which statement best summarizes ">> \o topic \o <<"?">>,
             topic \o <<" is the main focus.">>,
             <<"It is unrelated to the topic.">>,
             <<"It only applies in rare cases.">>,
             <<"It is a historical footnote.">>,
             "A", "Placeholder explanation: the topic should be central."),
           PlaceholderQuestion(
             <<"Which term is most associated with ">> \o topic \o <<"?">>,
             <<"Distant echoes">>,
             <<"Core ">> \o topic \o <<" concept">>,
             <<"Random noise">>,
             <<"Unrelated field">>,
             "B", "Placeholder explanation: this is a common association."),
           PlaceholderQuestion(
             <<"Which activity is an example of ">> \o topic \o <<"?">>,
             <<"Unrelated observation">>,
             <<"Contradictory practice">>,
             <<"Applying ">> \o topic \o <<" principles">>,
             <<"Ignoring the topic entirely">>,
             "C", "Placeholder explanation: examples apply the topic."),
           PlaceholderQuestion(
             <<"Which question would you ask to learn about ">> \o topic \o <<"?">>,
             <<"What is the weather tomorrow?">>,
             <<"How tall is the nearest mountain?">>,
             <<"Who won last night's game?">>,
             <<"What are the basics of ">> \o topic \o <<"?">>,
             "D", "Placeholder explanation: questions should be on-topic."),
           PlaceholderQuestion(
             <<"Which choice is least related to ">> \o topic \o <<"?">>,
             <<"An overview of ">> \o topic,
             <<"An unrelated distraction">>,
             topic \o <<" fundamentals">>,
             <<"Common ">> \o topic \o <<" vocabulary">>,
             "B", "Placeholder explanation: the unrelated option stands out.")
         >>]

(***************************************************************************)
(* ensure_prompt_coverage (quiz_generation.py)                             *)
(***************************************************************************)
QuizSuffix == <<" ", "Q", "u", "i", "z">>

RECURSIVE JoinPrompts(_)
JoinPrompts(questions) ==
    IF questions = <<>> THEN <<>>
    ELSE LET first == IF Has(questions[1], "prompt") THEN questions[1].prompt
                      ELSE <<>>
         IN  IF Len(questions) = 1 THEN first
             ELSE first \o <<" ">> \o JoinPrompts(Tail(questions))

ensure_prompt_coverage(prompt, quiz_content) ==
    LET prompt_text == Strip(prompt)
        needle == Lower(prompt_text)
        title == IF Has(quiz_content, "title") THEN quiz_content.title ELSE <<>>
        questions == IF Has(quiz_content, "questions") THEN quiz_content.questions
                     ELSE <<>>
        prompts == JoinPrompts(questions)
    IN  IF prompt_text = <<>>
        THEN quiz_content
        ELSE IF ~Contains(Lower(title), needle) /\ ~Contains(Lower(prompts), needle)
        THEN [k \in DOMAIN quiz_content \cup {"title"} |->
                 IF k = "title" THEN prompt_text \o QuizSuffix ELSE quiz_content[k]]
        ELSE quiz_content

(***************************************************************************)
(* to_iso and build_results_snapshot                                       *)
(***************************************************************************)
(* An instant is a tick of the clock; its ISO-8601 form names the zone. *)
to_iso(dt) == [instant |-> dt, tz |-> "+00:00"]

(* dict.get(key): the value or None *)
Opt(d, k) == IF Has(d, k) THEN Some(d[k]) ELSE None

(* round(x, 2) of x = 100 * num / den, in hundredths, ties to even *)
RoundHundredths(num, den) ==
    LET n == num * 10000
        q == n \div den
        r == n % den
    IN  IF 2 * r < den THEN q
        ELSE IF 2 * r > den THEN q + 1
        ELSE IF q % 2 = 0 THEN q ELSE q + 1

(* the quotient taken by integer division before scaling *)
score_percent_floor(correct_count, total_questions) ==
    (correct_count \div total_questions) * 10000

score_percent_of(correct_count, total_questions) ==
    RoundHundredths(correct_count, total_questions)

(* the answer taken from the list without matching its question index *)
SnapshotQuestionAnyAnswer(question, quiz_answers) ==
    LET index == Opt(question, "index")
        answer == IF quiz_answers = {} THEN None
                  ELSE Some(CHOOSE a \in quiz_answers : TRUE)
    IN  [index |-> index,
         prompt |-> Opt(question, "prompt"),
         options |-> Opt(question, "options"),
         selected_option_key |->
             IF IsNone(answer) THEN None ELSE Some(Get(answer).selected_option_key),
         correct_option_key |-> Opt(question, "correct_option_key"),
         is_correct |-> IF IsNone(answer) THEN FALSE ELSE Get(answer).is_correct,
         explanation |-> Opt(question, "explanation")]

SnapshotQuestion(question, quiz_answers) ==
    LET index == Opt(question, "index")
        matching == {a \in quiz_answers : Some(a.question_index) = index}
        answer == IF matching = {} THEN None
                  ELSE Some(CHOOSE a \in matching : TRUE)
    IN  [index |-> index,
         prompt |-> Opt(question, "prompt"),
         options |-> Opt(question, "options"),
         selected_option_key |->
             IF IsNone(answer) THEN None ELSE Some(Get(answer).selected_option_key),
         correct_option_key |-> Opt(question, "correct_option_key"),
         is_correct |-> IF IsNone(answer) THEN FALSE ELSE Get(answer).is_correct,
         explanation |-> Opt(question, "explanation")]

build_results_snapshot(quiz, quiz_answers, completed_at) ==
    LET correct_count == Cardinality({a \in quiz_answers : a.is_correct})
    IN  [quiz_id |-> quiz.id,
         completed_at |-> to_iso(completed_at),
         score |-> [correct_count |-> correct_count,
                    total_questions |-> quiz.total_questions,
                    score_percent |->
                        score_percent_of(correct_count, quiz.total_questions)],
         questions |-> [i \in DOMAIN quiz.quiz_content.questions |->
                          SnapshotQuestion(quiz.quiz_content.questions[i],
                                           quiz_answers)]]

(***************************************************************************)
(* Tables (models.py).  Rows are kept in insertion order; a row's id is    *)
(* its position (the uuid4 default only needs to be fresh).                *)
(***************************************************************************)
UserRow(id, username) == [id |-> id, username |-> username]

(* Quiz(...) constructed with the final status *)
NewQuizCompleted(id, user_id, prompt, quiz_content) ==
    [id |-> id,
     user_id |-> user_id,
     prompt |-> prompt,
     status |-> "completed",
     total_questions |-> Len(quiz_content.questions),
     correct_count |-> None,
     score_percent |-> None,
     completed_at |-> None,
     quiz_content |-> quiz_content,
     quiz_public |-> build_quiz_public(quiz_content),
     results_snapshot |-> None]

(* Quiz(...) as the create handlers construct it *)
NewQuiz(id, user_id, prompt, quiz_content) ==
    [id |-> id,
     user_id |-> user_id,
     prompt |-> prompt,
     status |-> "in_progress",
     total_questions |-> Len(quiz_content.questions),
     correct_count |-> None,
     score_percent |-> None,
     completed_at |-> None,
     quiz_content |-> quiz_content,
     quiz_public |-> build_quiz_public(quiz_content),
     results_snapshot |-> None]

QuizIds == DOMAIN quizzes

UserExists(user_id) == \E i \in DOMAIN users : users[i].id = user_id

AnswersOf(quiz_id) == {a \in answers : a.quiz_id = quiz_id}

(* the index declared without unique=True *)
AnswerSlotNeverTaken(rows, quiz_id, question_index) == FALSE

(* the unique index quiz_answers_quiz_question_idx *)
AnswerSlotTaken(rows, quiz_id, question_index) ==
    \E a \in rows : a.quiz_id = quiz_id /\ a.question_index = question_index

(* the column declared without unique=True *)
UsernameNeverTaken(rows, username) == FALSE

(* the unique constraint on users.username *)
UsernameTaken(rows, username) ==
    \E i \in DOMAIN rows : rows[i].username = username

(***************************************************************************)
(* Requests and responses.                                                 *)
(***************************************************************************)
IdleReq == [quiz_id |-> 0]

NoResp == [op |-> "none"]

(* no helper is being exercised on its own *)
NoMem == [stage |-> "none"]

ErrorResp(op, code, detail) == [op |-> op, code |-> code, detail |-> detail]

AllIdle == \A p \in Procs : pc[p] = "idle"

Init ==
    /\ users = <<>>
    /\ quizzes = <<>>
    /\ answers = {}
    /\ pc = [p \in Procs |-> "idle"]
    /\ req = [p \in Procs |-> IdleReq]
    /\ clock = 0
    /\ resp = NoResp
    /\ mem = NoMem

(***************************************************************************)
(* Response models (schemas.py).                                           *)
(***************************************************************************)
(* float(quiz.score_percent) if quiz.score_percent else None *)
ScoreOut(score_percent) ==
    IF IsNone(score_percent) \/ Get(score_percent) = 0 THEN None ELSE score_percent

QuizOut(op, code, quiz, completed_at) ==
    [op |-> op, code |-> code,
     id |-> quiz.id,
     user_id |-> quiz.user_id,
     prompt |-> quiz.prompt,
     status |-> quiz.status,
     completed_at |-> completed_at,
     total_questions |-> quiz.total_questions,
     correct_count |-> quiz.correct_count,
     score_percent |-> ScoreOut(quiz.score_percent)]

QuizTakeOut(op, code, quiz, message) ==
    [op |-> op, code |-> code,
     id |-> quiz.id,
     prompt |-> quiz.prompt,
     status |-> quiz.status,
     total_questions |-> quiz.total_questions,
     quiz_public |-> quiz.quiz_public,
     message |-> message]

AnswerOut(worker, quiz, feedback, answered_count) ==
    [op |-> "submit_answer", code |-> 200,
     worker |-> worker,
     quiz_id |-> quiz.id,
     feedback |-> feedback,
     status |-> IF quiz.status = "completed" THEN "completed" ELSE "in_progress",
     answered_count |-> answered_count,
     total_questions |-> quiz.total_questions]

ResultsOut(results) ==
    [op |-> "get_results", code |-> 200,
     quiz_id |-> results.quiz_id,
     completed_at |-> results.completed_at,
     score |-> results.score,
     questions |-> results.questions]

SubmitError(worker, quiz_id, code, detail) ==
    [op |-> "submit_answer", code |-> code, detail |-> detail,
     worker |-> worker, quiz_id |-> quiz_id]

(***************************************************************************)
(* POST /users                                                             *)
(***************************************************************************)
create_user(username) ==
    /\ IF UsernameTaken(users, username)
       THEN /\ resp' = ErrorResp("create_user", 409, "username already exists")
            /\ UNCHANGED users
       ELSE /\ Len(users) < MaxUsers
            /\ users' = Append(users, UserRow(Len(users) + 1, username))
            /\ resp' = [op |-> "create_user", code |-> 201,
                        id |-> Len(users) + 1, username |-> username,
                        message |-> "account created"]
    /\ UNCHANGED <<quizzes, answers, pc, req, clock>>

(***************************************************************************)
(* POST /quizzes, POST /quizzes/placeholder                                *)
(***************************************************************************)
(* db.add(quiz); db.commit(); db.refresh(quiz) *)
InsertQuiz(user_id, prompt, quiz_content) ==
    /\ Len(quizzes) < MaxQuizzes
    /\ quizzes' = Append(quizzes,
                         NewQuiz(Len(quizzes) + 1, user_id, prompt, quiz_content))

create_quiz(user_id, prompt, quiz_content) ==
    /\ IF ~UserExists(user_id)
       THEN /\ resp' = ErrorResp("create_quiz", 404, "user not found")
            /\ UNCHANGED quizzes
       ELSE LET normalized == normalize_quiz_content(quiz_content)
            IN  IF ~normalized.ok
                THEN /\ resp' = ErrorResp("create_quiz", normalized.code,
                                          normalized.detail)
                     /\ UNCHANGED quizzes
                ELSE /\ InsertQuiz(user_id, prompt, normalized.value)
                     /\ resp' = QuizOut("create_quiz", 201,
                                        quizzes'[Len(quizzes')], None)
    /\ UNCHANGED <<users, answers, pc, req, clock>>

create_placeholder_quiz(user_id, prompt) ==
    /\ IF ~UserExists(user_id)
       THEN /\ resp' = ErrorResp("create_placeholder_quiz", 404, "user not found")
            /\ UNCHANGED quizzes
       ELSE LET normalized ==
                    normalize_quiz_content(build_placeholder_quiz_content(prompt))
            IN  IF ~normalized.ok
                THEN /\ resp' = ErrorResp("create_placeholder_quiz",
                                          normalized.code, normalized.detail)
                     /\ UNCHANGED quizzes
                ELSE /\ InsertQuiz(user_id, prompt, normalized.value)
                     /\ resp' = QuizTakeOut("create_placeholder_quiz", 201,
                                            quizzes'[Len(quizzes')], None)
    /\ UNCHANGED <<users, answers, pc, req, clock>>

(***************************************************************************)
(* POST /quizzes/generate (main.py, quiz_generation.py)                    *)
(***************************************************************************)
Raise(exception) == [ok |-> FALSE, exception |-> exception]

(* os.getenv("AI_PROVIDER", "openai").strip().lower(), must be a provider *)
get_ai_provider(ai_provider) ==
    IF ai_provider \notin {"openai", "claude"}
    THEN Raise("RuntimeError")
    ELSE Ok(ai_provider)

(* the key variable of the default provider, whatever the provider *)
openai_api_key_env_var(provider) == "OPENAI_API_KEY"

get_ai_api_key_env_var(provider) ==
    IF provider = "claude" THEN "CLAUDE_API_KEY" ELSE "OPENAI_API_KEY"

(* The provider call either raises, or returns text that is not JSON,      *)
(* JSON that is not an object, or a JSON object (the content).             *)
generate_quiz_content(prompt, ai_provider, has_key, outcome) ==
    IF ~get_ai_provider(ai_provider).ok THEN Raise("RuntimeError")
    ELSE IF ~has_key THEN Raise("RuntimeError")
    ELSE IF outcome.kind = "request_failed" THEN Raise("RuntimeError")
    ELSE IF outcome.kind = "not_json" THEN Raise("RuntimeError")
    ELSE IF outcome.kind = "not_object" THEN Raise("AttributeError")
    ELSE Ok(ensure_prompt_coverage(prompt, outcome.content))

PlaceholderMessage(key_env_var) ==
    "Unable to create quiz: " \o key_env_var
        \o " is not configured. Defaulting to placeholder quiz."

create_generated_quiz(user_id, raw_prompt, ai_provider, has_key, outcome) ==
    /\ IF ~UserExists(user_id)
       THEN /\ resp' = ErrorResp("create_generated_quiz", 404, "user not found")
            /\ UNCHANGED quizzes
       ELSE IF ~validate_quiz_prompt(raw_prompt).ok
       THEN /\ resp' = ErrorResp("create_generated_quiz", 400, ErrPrompt)
            /\ UNCHANGED quizzes
       ELSE IF ~get_ai_provider(ai_provider).ok
       THEN (* the RuntimeError is raised outside the try block *)
            /\ resp' = ErrorResp("create_generated_quiz", 500,
                                 "Internal Server Error")
            /\ UNCHANGED quizzes
       ELSE LET prompt == validate_quiz_prompt(raw_prompt).value IN
            IF ~has_key
            THEN LET normalized == normalize_quiz_content(
                                       build_placeholder_quiz_content(prompt))
                 IN  IF ~normalized.ok
                     THEN /\ resp' = ErrorResp("create_generated_quiz",
                                               normalized.code, normalized.detail)
                          /\ UNCHANGED quizzes
                     ELSE /\ InsertQuiz(user_id, prompt, normalized.value)
                          /\ resp' = QuizTakeOut(
                                 "create_generated_quiz", 201,
                                 quizzes'[Len(quizzes')],
                                 Some(PlaceholderMessage(
                                     get_ai_api_key_env_var(ai_provider))))
            ELSE LET generated ==
                         generate_quiz_content(prompt, ai_provider, has_key, outcome)
                 IN  IF ~generated.ok
                     THEN /\ resp' = ErrorResp(
                                 "create_generated_quiz",
                                 IF generated.exception = "RuntimeError"
                                 THEN 503 ELSE 502,
                                 "quiz generation failed")
                          /\ UNCHANGED quizzes
                     ELSE LET normalized == normalize_quiz_content(
                                  ensure_prompt_coverage(prompt, generated.value))
                          IN  IF ~normalized.ok
                              THEN /\ resp' = ErrorResp("create_generated_quiz",
                                                        normalized.code,
                                                        normalized.detail)
                                   /\ UNCHANGED quizzes
                              ELSE /\ InsertQuiz(user_id, prompt, normalized.value)
                                   /\ resp' = QuizTakeOut(
                                          "create_generated_quiz", 201,
                                          quizzes'[Len(quizzes')], None)
    /\ UNCHANGED <<users, answers, pc, req, clock>>

(***************************************************************************)
(* GET /quizzes, GET /quizzes/{id}, GET /quizzes/{id}/results              *)
(***************************************************************************)
list_quizzes(user_id) ==
    /\ resp' = [op |-> "list_quizzes", code |-> 200, user_id |-> user_id,
                results |->
                    {QuizOut("list_quizzes", 200, quizzes[i],
                             IF IsNone(quizzes[i].completed_at) THEN None
                             ELSE Some(to_iso(Get(quizzes[i].completed_at)))) :
                         i \in {j \in DOMAIN quizzes : quizzes[j].user_id = user_id}}]
    /\ UNCHANGED <<users, quizzes, answers, pc, req, clock>>

get_quiz(quiz_id) ==
    /\ IF quiz_id \notin QuizIds
       THEN resp' = ErrorResp("get_quiz", 404, "quiz not found")
       ELSE resp' = QuizTakeOut("get_quiz", 200, quizzes[quiz_id], None)
    /\ UNCHANGED <<users, quizzes, answers, pc, req, clock>>

(* a quiz in progress reported as missing *)
get_results_not_found(quiz_id) ==
    /\ IF \/ quiz_id \notin QuizIds
          \/ quizzes[quiz_id].status # "completed"
          \/ IsNone(quizzes[quiz_id].results_snapshot)
       THEN resp' = ErrorResp("get_results", 404, "quiz not found")
                        @@ ("quiz_id" :> quiz_id)
       ELSE resp' = ResultsOut(Get(quizzes[quiz_id].results_snapshot))
    /\ UNCHANGED <<users, quizzes, answers, pc, req, clock>>

get_results(quiz_id) ==
    /\ IF quiz_id \notin QuizIds
       THEN resp' = ErrorResp("get_results", 404, "quiz not found")
                        @@ ("quiz_id" :> quiz_id)
       ELSE IF \/ quizzes[quiz_id].status # "completed"
               \/ IsNone(quizzes[quiz_id].results_snapshot)
       THEN resp' = ErrorResp("get_results", 409, "quiz not completed")
                        @@ ("quiz_id" :> quiz_id)
       ELSE resp' = ResultsOut(Get(quizzes[quiz_id].results_snapshot))
    /\ UNCHANGED <<users, quizzes, answers, pc, req, clock>>

(***************************************************************************)
(* POST /quizzes/{id}/answers: submit_answer.  Each worker runs the        *)
(* handler on its own session; the steps are its database statements,      *)
(* each reading the committed state (READ COMMITTED):                      *)
(*   idle    -> insert   SELECT the quiz; status and question checks       *)
(*   insert  -> refresh  INSERT the answer and COMMIT, or IntegrityError   *)
(*   refresh -> count    reload of the expired quiz row (quiz.id)          *)
(*   count   -> complete the count query; respond if not all answered    *)
(*   complete-> idle     SELECT the answers, UPDATE the quiz, COMMIT       *)
(***************************************************************************)
Feedback(question, question_index, selected_key) ==
    [question_index |-> question_index,
     selected_option_key |-> selected_key,
     is_correct |-> Some(selected_key) = Opt(question, "correct_option_key"),
     correct_option_key |-> Opt(question, "correct_option_key"),
     explanation |-> Opt(question, "explanation")]

(* QuizAnswer(...) *)
NewAnswer(quiz_id, question_index, selected_key, feedback) ==
    [quiz_id |-> quiz_id,
     question_index |-> question_index,
     selected_option_key |-> selected_key,
     is_correct |-> feedback.is_correct,
     feedback |-> feedback]

Respond(p, response) ==
    /\ resp' = response
    /\ pc' = [pc EXCEPT ![p] = "idle"]
    /\ req' = [req EXCEPT ![p] = IdleReq]

(* the status check left out *)
QuizIsNeverCompleted(quiz) == FALSE

(* quiz.status == "completed" *)
QuizIsCompleted(quiz) == quiz.status = "completed"

(* the comparison off by one *)
AllButOneAnswered(answered_count, quiz) ==
    answered_count >= quiz.total_questions - 1

(* answered_count == quiz.total_questions *)
AllAnswered(answered_count, quiz) == answered_count = quiz.total_questions

(* a request is served by the first idle worker *)
FirstIdle(p) ==
    /\ pc[p] = "idle"
    /\ \A o \in Procs : pc[o] = "idle" => ~(o < p)

SubmitBegin(p, quiz_id, question_index, selected_key) ==
    /\ FirstIdle(p)
    /\ IF question_index < 1
       THEN (* AnswerCreate.question_index: Field(..., ge=1) *)
            Respond(p, SubmitError(p, quiz_id, 422, "greater_than_equal"))
       ELSE IF quiz_id \notin QuizIds
       THEN Respond(p, SubmitError(p, quiz_id, 404, "quiz not found"))
       ELSE IF QuizIsCompleted(quizzes[quiz_id])
       THEN Respond(p, SubmitError(p, quiz_id, 409, "quiz completed"))
       ELSE LET found == question_by_index(quizzes[quiz_id].quiz_content,
                                           question_index)
            IN  IF ~found.ok
                THEN Respond(p, SubmitError(p, quiz_id, found.code, found.detail))
                ELSE /\ req' = [req EXCEPT ![p] =
                            [quiz_id |-> quiz_id,
                             answer |-> NewAnswer(
                                 quiz_id, question_index, selected_key,
                                 Feedback(found.value, question_index,
                                          selected_key))]]
                     /\ pc' = [pc EXCEPT ![p] = "insert"]
                     /\ resp' = NoResp
    /\ UNCHANGED <<users, quizzes, answers, clock>>

(* the stored row replaced before the conflict is reported *)
SubmitInsertReplacing(p) ==
    /\ pc[p] = "insert"
    /\ IF AnswerSlotTaken(answers, req[p].quiz_id, req[p].answer.question_index)
       THEN /\ Respond(p, SubmitError(p, req[p].quiz_id, 409,
                                      "answer already submitted"))
            /\ answers' =
                  {a \in answers :
                      ~( /\ a.quiz_id = req[p].quiz_id
                         /\ a.question_index = req[p].answer.question_index )}
                  \cup {req[p].answer}
       ELSE /\ answers' = answers \cup {req[p].answer}
            /\ pc' = [pc EXCEPT ![p] = "refresh"]
            /\ resp' = NoResp
            /\ UNCHANGED req
    /\ UNCHANGED <<users, quizzes, clock>>

SubmitInsert(p) ==
    /\ pc[p] = "insert"
    /\ IF AnswerSlotTaken(answers, req[p].quiz_id, req[p].answer.question_index)
       THEN (* IntegrityError: db.rollback() *)
            /\ Respond(p, SubmitError(p, req[p].quiz_id, 409,
                                      "answer already submitted"))
            /\ UNCHANGED answers
       ELSE /\ answers' = answers \cup {req[p].answer}
            /\ pc' = [pc EXCEPT ![p] = "refresh"]
            /\ resp' = NoResp
            /\ UNCHANGED req
    /\ UNCHANGED <<users, quizzes, clock>>

SubmitRefresh(p) ==
    /\ pc[p] = "refresh"
    /\ req' = [req EXCEPT ![p] = req[p] @@ ("quiz" :> quizzes[req[p].quiz_id])]
    /\ pc' = [pc EXCEPT ![p] = "count"]
    /\ resp' = NoResp
    /\ UNCHANGED <<users, quizzes, answers, clock>>

SubmitCount(p) ==
    /\ pc[p] = "count"
    /\ LET answered_count == Cardinality(AnswersOf(req[p].quiz_id))
       IN  IF AllAnswered(answered_count, req[p].quiz)
           THEN /\ req' = [req EXCEPT ![p] =
                              req[p] @@ ("answered_count" :> answered_count)]
                /\ pc' = [pc EXCEPT ![p] = "complete"]
                /\ resp' = NoResp
           ELSE Respond(p, AnswerOut(p, req[p].quiz, req[p].answer.feedback,
                                     answered_count))
    /\ UNCHANGED <<users, quizzes, answers, clock>>

(* the assignment of completed_at left out *)
CompleteQuizNoTimestamp(quiz, results_snapshot, completed_at) ==
    [quiz EXCEPT
        !.correct_count = Some(results_snapshot.score.correct_count),
        !.score_percent = Some(results_snapshot.score.score_percent),
        !.status = "completed",
        !.results_snapshot = Some(results_snapshot)]

(* the five assignments to the quiz and db.commit() *)
CompleteQuiz(quiz, results_snapshot, completed_at) ==
    [quiz EXCEPT
        !.correct_count = Some(results_snapshot.score.correct_count),
        !.score_percent = Some(results_snapshot.score.score_percent),
        !.status = "completed",
        !.completed_at = Some(completed_at),
        !.results_snapshot = Some(results_snapshot)]

SubmitComplete(p) ==
    /\ pc[p] = "complete"
    /\ \E now \in clock..MaxClock :
         LET quiz_id == req[p].quiz_id
             results_snapshot ==
                 build_results_snapshot(req[p].quiz, AnswersOf(quiz_id), now)
         IN  /\ clock' = now
             /\ quizzes' = [quizzes EXCEPT ![quiz_id] =
                               CompleteQuiz(quizzes[quiz_id], results_snapshot, now)]
             /\ Respond(p, AnswerOut(p, quizzes'[quiz_id],
                                     req[p].answer.feedback,
                                     req[p].answered_count))
    /\ UNCHANGED <<users, answers>>

(***************************************************************************)
(* Request inputs.                                                         *)
(***************************************************************************)
StdOptions ==
    <<Option("A", <<"a">>), Option("B", <<"b">>),
      Option("C", <<"c">>), Option("D", <<"d">>)>>

Question(options, correct) ==
    [prompt |-> <<"Q">>, options |-> options,
     correct_option_key |-> correct, explanation |-> <<"E">>]

WithIndex(question, index) == question @@ ("index" :> index)

Content(questions) == [title |-> <<"T">>, questions |-> questions]

(* the answer keys of the sample quiz of the tests *)
SampleKeys == <<"B", "A", "B", "A", "A">>

SampleQuestions(n) == [i \in 1..n |-> Question(StdOptions, SampleKeys[((i - 1) % 5) + 1])]

PlainContent == Content(SampleQuestions(5))

ReversedContent ==
    Content([i \in 1..5 |-> WithIndex(SampleQuestions(5)[i], 6 - i)])

DuplicateIndexContent ==
    Content([i \in 1..5 |-> WithIndex(SampleQuestions(5)[i], IF i = 5 THEN 4 ELSE i)])

(* only the second question carries an index, the one the first will get *)
PartialIndexContent ==
    Content([i \in 1..5 |-> IF i = 2 THEN WithIndex(SampleQuestions(5)[i], 1)
                            ELSE SampleQuestions(5)[i]])

ReplaceFirst(question) ==
    Content([i \in 1..5 |-> IF i = 1 THEN question ELSE SampleQuestions(5)[i]])

ReplaceFirstTwo(first, second) ==
    Content([i \in 1..5 |-> IF i = 1 THEN first
                            ELSE IF i = 2 THEN second
                            ELSE SampleQuestions(5)[i]])

InvalidContents ==
    { Content(SampleQuestions(4)),
      Content(SampleQuestions(6)),
      Content(SampleQuestions(1)),
      Content(<<>>),
      [title |-> <<"T">>],
      ReplaceFirst(Question(SubSeq(StdOptions, 1, 3), "A")),
      ReplaceFirst(Question(<<Option("A", <<"a">>), Option("A", <<"b">>),
                              Option("C", <<"c">>), Option("D", <<"d">>)>>, "A")),
      ReplaceFirst(Question(<<Option("A", <<"a">>), Option("B", <<"b">>),
                              Option("C", <<"c">>), Option("E", <<"e">>)>>, "A")),
      ReplaceFirst(Question(<<Option("A", <<"a">>), Option("B", <<>>),
                              Option("C", <<"c">>), Option("D", <<"d">>)>>, "A")),
      ReplaceFirst(Question(StdOptions, "E")),
      ReplaceFirst(Question(StdOptions, "a")),
      ReplaceFirst(Pop(Question(StdOptions, "A"), {"correct_option_key"})),
      ReplaceFirst(Question(StdOptions \o <<Option("E", <<"e">>)>>, "A")),
      ReplaceFirst(Question(<<Option("A", <<"a">>), Option("B", <<"b">>),
                              Option("C", <<"c">>), Option("E", <<>>)>>, "A")),
      ReplaceFirst(Question(<<Option("A", <<"a">>), Option("B", <<"b">>),
                              Option("C", <<"c">>),
                              [text |-> <<"d">>]>>, "A")),
      ReplaceFirstTwo(SampleQuestions(5)[1],
                      Question(SubSeq(StdOptions, 1, 3), "A")),
      ReplaceFirstTwo(SampleQuestions(5)[1],
                      Question(<<Option("A", <<"a">>), Option("B", <<"b">>),
                                 Option("C", <<"c">>), Option("C", <<"d">>)>>, "A")),
      ReplaceFirstTwo(SampleQuestions(5)[1], Question(StdOptions, "Z")),
      ReplaceFirstTwo(Question(StdOptions, "E"),
                      Question(SubSeq(StdOptions, 1, 3), "A")),
      ReplaceFirstTwo(Question(StdOptions, "E"),
                      Question(<<Option("A", <<"a">>), Option("A", <<"b">>),
                                 Option("C", <<"c">>), Option("D", <<"d">>)>>, "A")),
      ReplaceFirstTwo(Question(SubSeq(StdOptions, 1, 3), "A"),
                      Question(StdOptions, "E")) }

(* the options of the first question in the order D, C, B, A *)
ShuffledOptionsContent ==
    ReplaceFirst(Question([j \in 1..4 |-> StdOptions[5 - j]], "B"))

ValidContents ==
    {PlainContent, ReversedContent, DuplicateIndexContent, PartialIndexContent,
     ShuffledOptionsContent}

Usernames == {"alice", "bob"}
(* an unknown user id and the first user's *)
UserIdInputs == {0, 1}
QuizIdInputs == 1..(MaxQuizzes + 1)
QuestionIndexInputs == 0..(RequiredQuestions + 1)
SelectedKeyInputs == {"A", "Z"}

PromptInputs ==
    { <<"G", "o">>, << " ", "G", "o", "\t">>, <<>>, <<"a", "@">>,
      <<"a", " ", "b", " ", "c", " ", "d">> }

GeneratedTitle(title) ==
    [Content(SampleQuestions(5)) EXCEPT !.title = title]

ProviderOutcomes ==
    { [kind |-> "request_failed"], [kind |-> "not_json"], [kind |-> "not_object"],
      [kind |-> "content", content |-> GeneratedTitle(<<"g", "o", "!">>)],
      [kind |-> "content", content |-> GeneratedTitle(<<"T">>)],
      [kind |-> "content", content |-> Content(SampleQuestions(4))] }

ProviderSettings == {"openai", "claude", "other"}

GenerateCase(prompt, ai_provider, has_key, outcome) ==
    [prompt |-> prompt, ai_provider |-> ai_provider,
     has_key |-> has_key, outcome |-> outcome]

CoveredOutcome ==
    [kind |-> "content", content |-> GeneratedTitle(<<"g", "o", "!">>)]

(* every prompt, every configuration and every provider outcome, each     *)
(* with the other inputs at a value that lets it decide the response      *)
GenerateCases ==
    {GenerateCase(prompt, "openai", TRUE, CoveredOutcome) :
         prompt \in PromptInputs}
    \cup {GenerateCase(<<"G", "o">>, ai_provider, has_key, CoveredOutcome) :
              ai_provider \in ProviderSettings, has_key \in BOOLEAN}
    \cup {GenerateCase(<<"G", "o">>, "openai", TRUE, outcome) :
              outcome \in ProviderOutcomes}
    \cup {GenerateCase(<< " ", "G", "o", "\t">>, "claude", FALSE,
                       [kind |-> "request_failed"])}

NarrowContents ==
    {ReversedContent, DuplicateIndexContent, Content(SampleQuestions(4))}

(***************************************************************************)
(* The handlers that are one transaction.                                  *)
(***************************************************************************)
CreateUser(usernames) == \E username \in usernames : create_user(username)

CreateQuiz(contents) ==
    \E user_id \in UserIdInputs, quiz_content \in contents :
        create_quiz(user_id, <<"Math and space">>, quiz_content)

CreatePlaceholderQuiz(prompts) ==
    \E user_id \in UserIdInputs, prompt \in prompts :
        create_placeholder_quiz(user_id, prompt)

CreateGeneratedQuiz(cases) ==
    \E user_id \in UserIdInputs, c \in cases :
        create_generated_quiz(user_id, c.prompt, c.ai_provider, c.has_key,
                              c.outcome)

ListQuizzes == \E user_id \in UserIdInputs : list_quizzes(user_id)

GetQuiz == \E quiz_id \in QuizIdInputs : get_quiz(quiz_id)

GetResults == \E quiz_id \in QuizIdInputs : get_results(quiz_id)

Begin(p) ==
    \E quiz_id \in QuizIdInputs, question_index \in QuestionIndexInputs,
       selected_key \in SelectedKeyInputs :
        SubmitBegin(p, quiz_id, question_index, selected_key)

(***************************************************************************)
(* Spec: the service from an empty database, one request at a time, one    *)
(* quiz per run (a quiz's handlers read and write only that quiz's rows).  *)
(***************************************************************************)
OneQuiz == quizzes' # quizzes => quizzes = <<>>

Next ==
    \/ AllIdle /\ CreateUser({"alice"}) /\ UNCHANGED mem
    \/ AllIdle /\ CreateQuiz(NarrowContents) /\ OneQuiz /\ UNCHANGED mem
    \/ AllIdle /\ CreatePlaceholderQuiz({<<"G", "o">>}) /\ OneQuiz /\ UNCHANGED mem
    \/ /\ AllIdle
       /\ CreateGeneratedQuiz(
              {GenerateCase(<<"G", "o">>, "openai", TRUE, CoveredOutcome)})
       /\ OneQuiz
       /\ UNCHANGED mem
    \/ AllIdle /\ ListQuizzes /\ UNCHANGED mem
    \/ AllIdle /\ GetQuiz /\ UNCHANGED mem
    \/ AllIdle /\ GetResults /\ UNCHANGED mem
    \/ \E p \in Procs : AllIdle /\ Begin(p) /\ UNCHANGED mem
    \/ \E p \in Procs : SubmitInsert(p) /\ UNCHANGED mem
    \/ \E p \in Procs : SubmitRefresh(p) /\ UNCHANGED mem
    \/ \E p \in Procs : SubmitCount(p) /\ UNCHANGED mem
    \/ \E p \in Procs : SubmitComplete(p) /\ UNCHANGED mem

Spec == Init /\ [][Next]_vars

(***************************************************************************)
(* SpecCreate: the creating handlers over every kind of input.             *)
(***************************************************************************)
NextCreate ==
    \/ CreateUser(Usernames) /\ UNCHANGED mem
    \/ CreateQuiz(ValidContents \cup InvalidContents) /\ UNCHANGED mem
    \/ CreatePlaceholderQuiz(PromptInputs) /\ UNCHANGED mem
    \/ CreateGeneratedQuiz(GenerateCases) /\ UNCHANGED mem
    \/ ListQuizzes /\ UNCHANGED mem
    \/ GetQuiz /\ UNCHANGED mem

SpecCreate == Init /\ [][NextCreate]_vars

(* POST /quizzes/generate as the only handler that creates quizzes *)
NextGenerate ==
    \/ CreateUser(Usernames) /\ UNCHANGED mem
    \/ CreateGeneratedQuiz(GenerateCases) /\ UNCHANGED mem
    \/ ListQuizzes /\ UNCHANGED mem
    \/ GetQuiz /\ UNCHANGED mem

SpecGenerate == Init /\ [][NextGenerate]_vars

(***************************************************************************)
(* SpecValidate: POST /quizzes over every kind of payload.                 *)
(***************************************************************************)
NextValidate ==
    \/ CreateUser(Usernames) /\ UNCHANGED mem
    \/ CreateQuiz(ValidContents \cup InvalidContents) /\ UNCHANGED mem
    \/ ListQuizzes /\ UNCHANGED mem
    \/ GetQuiz /\ UNCHANGED mem

SpecValidate == Init /\ [][NextValidate]_vars

(***************************************************************************)
(* SpecRace: two workers serve overlapping requests.  The run starts in a  *)
(* state the service reaches one request at a time: one user, a quiz       *)
(* whose questions but the first OpenSlots are answered, and a second,     *)
(* completed quiz.                                                         *)
(***************************************************************************)
OpenSlots == 2

PreKeys == <<"A", "Z", "A", "A", "Z">>

PreAnswers(quiz, indices) ==
    {NewAnswer(quiz.id, i, PreKeys[i],
               Feedback(question_by_index(quiz.quiz_content, i).value,
                        i, PreKeys[i])) : i \in indices}

RaceQuiz == NewQuiz(1, 1, <<"Math and space">>,
                    normalize_quiz_content(ReversedContent).value)

DoneQuiz ==
    LET quiz == NewQuiz(2, 1, <<"Math and space">>,
                        normalize_quiz_content(PlainContent).value)
        given == PreAnswers(quiz, 1..RequiredQuestions)
    IN  CompleteQuiz(quiz, build_results_snapshot(quiz, given, 0), 0)

RaceInit ==
    /\ users = <<UserRow(1, "alice")>>
    /\ quizzes = <<RaceQuiz, DoneQuiz>>
    /\ answers = PreAnswers(RaceQuiz, (OpenSlots + 1)..RequiredQuestions)
                    \cup PreAnswers(DoneQuiz, 1..RequiredQuestions)
    /\ pc = [p \in Procs |-> "idle"]
    /\ req = [p \in Procs |-> IdleReq]
    /\ clock = 0
    /\ resp = NoResp
    /\ mem = NoMem

RaceBegin(p) ==
    \E quiz_id \in 1..3, question_index \in QuestionIndexInputs,
       selected_key \in SelectedKeyInputs :
        SubmitBegin(p, quiz_id, question_index, selected_key)

NextRace ==
    \/ \E quiz_id \in 1..3 : get_results(quiz_id) /\ UNCHANGED mem
    \/ \E p \in Procs : RaceBegin(p) /\ UNCHANGED mem
    \/ \E p \in Procs : SubmitInsert(p) /\ UNCHANGED mem
    \/ \E p \in Procs : SubmitRefresh(p) /\ UNCHANGED mem
    \/ \E p \in Procs : SubmitCount(p) /\ UNCHANGED mem
    \/ \E p \in Procs : SubmitComplete(p) /\ UNCHANGED mem

SpecRace == RaceInit /\ [][NextRace]_vars

(***************************************************************************)
(* SpecHelpers: the helpers called on their own, each on an input drawn    *)
(* at the start; mem holds the input and then the result.                  *)
(***************************************************************************)
(***************************************************************************)
(* Objects with identity.  A Python dict or list is an object at an        *)
(* address; a slot of an object holds an immutable value (Atom) or the     *)
(* address of another object (Ref).  Two names are aliases when they hold  *)
(* the same address, and an in-place change of an object is seen through   *)
(* every alias.  An address is a sequence of strings.                      *)
(***************************************************************************)
Ref(a) == [ref |-> a]
Atom(x) == [atom |-> x]
IsRef(c) == "ref" \in DOMAIN c
DictObj(fields) == [kind |-> "dict", slots |-> fields]
ListObj(items) == [kind |-> "list", slots |-> items]

Pos == <<"1", "2", "3", "4", "5", "6">>

Merge(heaps) ==
    [a \in UNION {DOMAIN h : h \in heaps} |->
        (CHOOSE h \in heaps : a \in DOMAIN h)[a]]

RefsOf(obj) ==
    {obj.slots[k].ref : k \in {k \in DOMAIN obj.slots : IsRef(obj.slots[k])}}

(* the addresses of the objects that can be reached from the object at root *)
RECURSIVE ReachFrom(_, _, _)
ReachFrom(heap, frontier, seen) ==
    IF frontier = {} THEN seen
    ELSE LET next == UNION {RefsOf(heap[a]) : a \in frontier}
         IN  ReachFrom(heap, next \ (seen \cup frontier), seen \cup frontier)

Reach(heap, root) == ReachFrom(heap, {root}, {})

(* the document that a slot denotes: dicts as functions, lists as sequences *)
RECURSIVE Lift(_, _)
Lift(heap, cell) ==
    IF IsRef(cell)
    THEN [k \in DOMAIN heap[cell.ref].slots |-> Lift(heap, heap[cell.ref].slots[k])]
    ELSE cell.atom

Doc(heap, root) == Lift(heap, Ref(root))

(* A payload parsed from JSON is a tree of fresh objects: the content      *)
(* dict, its questions list, the question dicts, their options lists and   *)
(* the option dicts.                                                       *)
AllocOptions(at, options) ==
    Merge({ (at :> ListObj([j \in DOMAIN options |-> Ref(at \o <<Pos[j]>>)])) }
          \cup { (at \o <<Pos[j]>>) :>
                     DictObj([k \in DOMAIN options[j] |-> Atom(options[j][k])])
                 : j \in DOMAIN options })

AllocQuestion(at, question) ==
    Merge({ (at :> DictObj([k \in DOMAIN question |->
                        IF k = "options" THEN Ref(at \o <<"options">>)
                        ELSE Atom(question[k])])) }
          \cup IF Has(question, "options")
               THEN {AllocOptions(at \o <<"options">>, question.options)}
               ELSE {})

AllocQuestions(at, questions) ==
    Merge({ (at :> ListObj([i \in DOMAIN questions |-> Ref(at \o <<Pos[i]>>)])) }
          \cup { AllocQuestion(at \o <<Pos[i]>>, questions[i])
                 : i \in DOMAIN questions })

AllocContent(at, quiz_content) ==
    Merge({ (at :> DictObj([k \in DOMAIN quiz_content |->
                        IF k = "questions" THEN Ref(at \o <<"questions">>)
                        ELSE Atom(quiz_content[k])])) }
          \cup IF Has(quiz_content, "questions")
               THEN {AllocQuestions(at \o <<"questions">>, quiz_content.questions)}
               ELSE {})

(* copy.deepcopy(x): every object reachable from root is copied to a fresh *)
(* address (its own address under tag) and the copies refer to the copies  *)
Deepcopy(heap, root, tag) ==
    LET old == Reach(heap, root)
        CopyOf(a) == <<tag>> \o a
        CopyCell(c) == IF IsRef(c) THEN Ref(CopyOf(c.ref)) ELSE c
    IN  [heap |-> Merge({heap,
                         [b \in {CopyOf(a) : a \in old} |->
                             [kind |-> heap[Tail(b)].kind,
                              slots |-> [k \in DOMAIN heap[Tail(b)].slots |->
                                            CopyCell(heap[Tail(b)].slots[k])]]]}),
         value |-> CopyOf(root)]

(* item = question: a second name for the same dict, no copy *)
DictAlias(heap, question, idx) ==
    [heap |-> heap, value |-> question]

(* item = dict(question): a new dict whose slots hold what the slots of    *)
(* question hold; the objects they refer to are not copied                 *)
DictCopy(heap, question, idx) ==
    [heap |-> Merge({heap, (<<"item", Pos[idx]>> :> heap[question])}),
     value |-> <<"item", Pos[idx]>>]

(* d[key] = cell *)
SetItem(heap, d, key, cell) ==
    [heap EXCEPT ![d].slots =
        [k \in DOMAIN heap[d].slots \cup {key} |->
            IF k = key THEN cell ELSE heap[d].slots[k]]]

(* d.setdefault(key, cell) *)
SetDefault(heap, d, key, cell) ==
    IF key \in DOMAIN heap[d].slots THEN heap ELSE SetItem(heap, d, key, cell)

(* The loop of normalize_quiz_content from question idx on: questions is   *)
(* the list of the input, normalized the deep copy of line 79, items the   *)
(* list normalized_questions built so far.                                 *)
RECURSIVE NormalizeLoop(_, _, _, _, _)
NormalizeLoop(heap, questions, normalized, idx, items) ==
    IF idx > Len(heap[questions].slots)
    THEN LET list == <<"normalized_questions">>
         IN  [heap |-> SetItem(Merge({heap, (list :> ListObj(items))}),
                               normalized, "questions", Ref(list)),
              result |-> Ok(normalized)]
    ELSE LET item == DictCopy(heap, heap[questions].slots[idx].ref, idx)
             error == QuestionError(Doc(item.heap, item.value))
         IN  IF error # ""
             THEN [heap |-> item.heap, result |-> Fail(400, error)]
             ELSE NormalizeLoop(
                      SetDefault(item.heap, item.value, "index", Atom(idx)),
                      questions, normalized, idx + 1,
                      Append(items, Ref(item.value)))

(* normalize_quiz_content on the objects: the heap after the call and      *)
(* either the address of the returned dict or the error raised             *)
NormalizeObjects(heap, quiz_content) ==
    LET slots == heap[quiz_content].slots
    IN  IF ~("questions" \in DOMAIN slots)
           \/ heap[slots["questions"].ref].slots = <<>>
        THEN [heap |-> heap, result |-> Fail(400, ErrNonEmpty)]
        ELSE IF Len(heap[slots["questions"].ref].slots) # RequiredQuestions
        THEN [heap |-> heap, result |-> Fail(400, ErrFiveQuestions)]
        ELSE LET normalized == Deepcopy(heap, quiz_content, "normalized")
             IN  NormalizeLoop(normalized.heap, slots["questions"].ref,
                               normalized.value, 1, <<>>)

ContentMem ==
    {[stage |-> "content", heap |-> AllocContent(<<"payload">>, quiz_content),
      quiz_content |-> <<"payload">>]
     : quiz_content \in ValidContents \cup InvalidContents}

(* normalize_quiz_content(quiz_content), called on its own *)
Normalize ==
    /\ mem.stage = "content"
    /\ LET call == NormalizeObjects(mem.heap, mem.quiz_content)
       IN  mem' = [stage |-> "normalized", before |-> mem.heap,
                   quiz_content |-> mem.quiz_content,
                   heap |-> call.heap, result |-> call.result]
    /\ UNCHANGED <<users, quizzes, answers, pc, req, clock, resp>>

(* The caller changes one object in place after the call, going through    *)
(* the content it passed in or through the content it got back:            *)
(*   content["title"] = "X"                                                *)
(*   content["questions"][i - 1]["prompt"] = "X"                           *)
(*   content["questions"][i - 1]["options"][0]["text"] = "X"               *)
(*   content["questions"][i - 1]["options"].pop()                          *)
ChangedText == <<"X">>
ChangeKinds == {"title", "prompt", "option_text", "options_pop"}

QuestionAt(heap, content, i) ==
    heap[heap[content].slots["questions"].ref].slots[i].ref

Change(heap, content, kind, i) ==
    LET question == QuestionAt(heap, content, i)
        options == heap[question].slots["options"].ref
    IN  CASE kind = "title" -> SetItem(heap, content, "title", Atom(ChangedText))
          [] kind = "prompt" -> SetItem(heap, question, "prompt", Atom(ChangedText))
          [] kind = "option_text" ->
                 SetItem(heap, heap[options].slots[1].ref, "text", Atom(ChangedText))
          [] kind = "options_pop" ->
                 [heap EXCEPT ![options].slots =
                     SubSeq(@, 1, Len(@) - 1)]

ChangeInPlace ==
    /\ mem.stage = "normalized"
    /\ mem.result.ok
    /\ \E through \in {"input", "result"}, kind \in ChangeKinds,
          i \in {1, RequiredQuestions} :
          mem' = [stage |-> "changed", before |-> mem.before,
                  quiz_content |-> mem.quiz_content,
                  returned |-> mem.heap, through |-> through,
                  heap |-> Change(mem.heap,
                                  IF through = "input" THEN mem.quiz_content
                                  ELSE mem.result.value,
                                  kind, i),
                  result |-> mem.result]
    /\ UNCHANGED <<users, quizzes, answers, pc, req, clock, resp>>

(* ensure_prompt_coverage on the objects: the heap after the call and the  *)
(* address of the returned dict                                            *)
EnsureCoverageObjects(heap, prompt, quiz_content) ==
    LET normalized == Deepcopy(heap, quiz_content, "normalized")
        prompt_text == Strip(prompt)
        needle == Lower(prompt_text)
        document == Doc(normalized.heap, normalized.value)
        title == IF Has(document, "title") THEN document.title ELSE <<>>
        questions == IF Has(document, "questions") THEN document.questions
                     ELSE <<>>
        prompts == JoinPrompts(questions)
    IN  IF prompt_text = <<>>
        THEN [heap |-> normalized.heap, value |-> normalized.value]
        ELSE IF ~Contains(Lower(title), needle) /\ ~Contains(Lower(prompts), needle)
        THEN [heap |-> SetItem(normalized.heap, normalized.value, "title",
                               Atom(prompt_text \o QuizSuffix)),
              value |-> normalized.value]
        ELSE [heap |-> normalized.heap, value |-> normalized.value]

CoveragePrompts ==
    { <<"G", "o">>, <<" ", "G", "o", "\t">>, <<" ", "\t">>, <<>>,
      <<"a", " ", "b">>, <<"q">>, <<"t">>, <<"x", " ", "A">> }

WithPrompt(question, prompt) == [question EXCEPT !.prompt = prompt]

(* the first question ends with "a" and the second begins with "b" *)
AdjacentPromptsContent ==
    ReplaceFirstTwo(WithPrompt(SampleQuestions(5)[1], <<"x", " ", "a">>),
                    WithPrompt(SampleQuestions(5)[2], <<"b", " ", "y">>))

CoverageContents ==
    { PlainContent, GeneratedTitle(<<"g", "o", "!">>), AdjacentPromptsContent,
      Pop(PlainContent, {"title"}), [title |-> <<"T">>],
      ReplaceFirst(Pop(SampleQuestions(5)[1], {"prompt"})) }

CoverageMem ==
    {[stage |-> "generated", prompt |-> prompt,
      heap |-> AllocContent(<<"payload">>, quiz_content),
      quiz_content |-> <<"payload">>]
     : prompt \in CoveragePrompts, quiz_content \in CoverageContents}

(* ensure_prompt_coverage(prompt, quiz_content), called on its own *)
EnsureCoverage ==
    /\ mem.stage = "generated"
    /\ LET call == EnsureCoverageObjects(mem.heap, mem.prompt, mem.quiz_content)
       IN  mem' = [stage |-> "covered", prompt |-> mem.prompt,
                   before |-> mem.heap, quiz_content |-> mem.quiz_content,
                   heap |-> call.heap, result |-> call.value]
    /\ UNCHANGED <<users, quizzes, answers, pc, req, clock, resp>>

HelperPrompts ==
    PromptInputs \cup
    { <<" ", "\t">>, <<"-">>, <<"a", "_", "b">>, <<"a", ".">>,
      <<"a", " ", "b">>, <<"a", " ", " ", "b", "\n", "c">>,
      <<"A", "1", "-", "B", "2", " ", "C", "3">>,
      <<"\n", "a", " ", "b", " ", "c", " ", "d", " ">> }

PromptMem == {[stage |-> "prompt", prompt |-> prompt] : prompt \in HelperPrompts}

ValidatePrompt ==
    /\ mem.stage = "prompt"
    /\ mem' = [stage |-> "validated", prompt |-> mem.prompt,
               result |-> validate_quiz_prompt(mem.prompt)]
    /\ UNCHANGED <<users, quizzes, answers, pc, req, clock, resp>>

HelpersInit ==
    /\ users = <<>>
    /\ quizzes = <<>>
    /\ answers = {}
    /\ pc = [p \in Procs |-> "idle"]
    /\ req = [p \in Procs |-> IdleReq]
    /\ clock = 0
    /\ resp = NoResp
    /\ mem \in PromptMem \cup ContentMem \cup CoverageMem

NextHelpers ==
    \/ ValidatePrompt
    \/ Normalize
    \/ ChangeInPlace
    \/ EnsureCoverage

SpecHelpers == HelpersInit /\ [][NextHelpers]_vars

(***************************************************************************)
(* Properties.                                                             *)
(***************************************************************************)
AnswersOfNext(quiz_id) == {a \in answers' : a.quiz_id = quiz_id}

(* the correct_option_key of the question an answer row answers *)
CorrectKeyFor(a) ==
    question_by_index(quizzes[a.quiz_id].quiz_content,
                      a.question_index).value.correct_option_key

CorrectAnswers(quiz_id) ==
    {a \in AnswersOf(quiz_id) : a.selected_option_key = CorrectKeyFor(a)}

(* C1: when requests run one after the other, a quiz is completed exactly  *)
(* when its fifth answer has been recorded; the response to the k-th       *)
(* recorded answer reports answered_count k, in_progress for k < 5 and     *)
(* completed for k = 5; the stored correct_count is the number of answers  *)
(* whose selected key is the question's correct_option_key, and            *)
(* score_percent is 20 * correct_count (kept in hundredths).               *)
C1_SequentialCompletion ==
    AllIdle =>
      /\ \A q \in DOMAIN quizzes :
           LET quiz == quizzes[q]
               n == Cardinality(AnswersOf(q))
               correct == Cardinality(CorrectAnswers(q))
           IN  /\ (quiz.status = "completed") <=> (n = 5)
               /\ quiz.status = "completed" =>
                    /\ quiz.correct_count = Some(correct)
                    /\ quiz.score_percent = Some(20 * correct * 100)
                    /\ Get(quiz.results_snapshot).score =
                           [correct_count |-> correct,
                            total_questions |-> 5,
                            score_percent |-> 20 * correct * 100]
      /\ (resp.op = "submit_answer" /\ resp.code = 200) =>
           LET n == Cardinality(AnswersOf(resp.quiz_id))
           IN  /\ resp.answered_count = n
               /\ n < 5 => resp.status = "in_progress"
               /\ n = 5 => resp.status = "completed"

C1_Witness ==
    /\ AllIdle
    /\ resp.op = "submit_answer" /\ resp.code = 200 /\ resp.status = "completed"
    /\ quizzes[resp.quiz_id].correct_count = Some(2)
    /\ quizzes[resp.quiz_id].score_percent = Some(4000)

(* C2: once a quiz is completed, a submit_answer call on it is refused     *)
(* with 409 by the status check (no worker gets past it), a request still  *)
(* in flight at its insert is refused with 409 too, and the quiz's set of  *)
(* answer rows never changes.                                              *)
C2_Step ==
    \A q \in DOMAIN quizzes :
      quizzes[q].status = "completed" =>
        /\ AnswersOfNext(q) = AnswersOf(q)
        /\ \A p \in Procs :
             /\ ~(pc[p] = "idle" /\ pc'[p] = "insert" /\ req'[p].quiz_id = q)
             /\ ( /\ pc[p] \in {"idle", "insert"}
                  /\ resp' # NoResp
                  /\ resp'.op = "submit_answer"
                  /\ resp'.worker = p
                  /\ resp'.quiz_id = q
                  /\ resp'.code # 422 )
                => resp'.code = 409

C2_CompletedRejectsAnswers == [][C2_Step]_vars

C2_Witness ==
    /\ quizzes[1].status = "completed"
    /\ resp.op = "submit_answer" /\ resp.quiz_id = 1
    /\ resp.code = 409 /\ resp.detail = "quiz completed"
    /\ \E p \in Procs : pc[p] = "insert" /\ req[p].quiz_id = 1

(* C3: there is never more than one answer row per (quiz, question index); *)
(* a worker whose insert finds the slot taken is refused with 409 and      *)
(* changes nothing, a worker that finds it free records exactly its own    *)
(* answer, and a recorded row (its selected key and correctness) is never  *)
(* changed or removed.                                                     *)
C3_Unique ==
    \A a, b \in answers :
        (a.quiz_id = b.quiz_id /\ a.question_index = b.question_index) => a = b

C3_Step ==
    /\ answers \subseteq answers'
    /\ \A p \in Procs :
         (pc[p] = "insert" /\ pc'[p] # "insert") =>
           IF \E a \in answers : /\ a.quiz_id = req[p].quiz_id
                                 /\ a.question_index = req[p].answer.question_index
           THEN /\ answers' = answers
                /\ resp'.op = "submit_answer" /\ resp'.code = 409
           ELSE /\ answers' = answers \cup {req[p].answer}
                /\ req[p].answer.is_correct <=>
                       (req[p].answer.selected_option_key
                            = CorrectKeyFor(req[p].answer))

C3_OneAnswerPerQuestion == []C3_Unique /\ [][C3_Step]_vars

(* both workers were in flight for the same slot with different keys *)
C3_Witness ==
    /\ resp.op = "submit_answer" /\ resp.code = 409
    /\ resp.detail = "answer already submitted"
    /\ \E p \in Procs :
         /\ pc[p] = "refresh"
         /\ req[p].quiz_id = resp.quiz_id
         /\ req[p].answer \in answers
         /\ req[p].answer.selected_option_key = "Z"
         /\ resp.worker # p

(* C4: the completion step (snapshot, status, completed_at) runs exactly   *)
(* once per quiz: a worker runs it only on a quiz that is still            *)
(* in_progress, and when no request is in flight a fully answered quiz is  *)
(* completed.                                                              *)
C4_Step ==
    \A p \in Procs :
        (pc[p] = "complete" /\ pc'[p] = "idle") =>
            quizzes[req[p].quiz_id].status = "in_progress"

C4_CompletedExactlyOnce ==
    /\ [](AllIdle => \A q \in DOMAIN quizzes :
              Cardinality(AnswersOf(q)) = quizzes[q].total_questions
                  => quizzes[q].status = "completed")
    /\ [][C4_Step]_vars

(* C5: a stored results snapshot, and the quiz's completed_at, never       *)
(* change.                                                                 *)
C5_Step ==
    \A q \in DOMAIN quizzes :
        ~IsNone(quizzes[q].results_snapshot) =>
            /\ quizzes'[q].results_snapshot = quizzes[q].results_snapshot
            /\ quizzes'[q].completed_at = quizzes[q].completed_at

C5_SnapshotImmutable == [][C5_Step]_vars

(* C6: a response of GET results is 200 with the stored snapshot exactly   *)
(* when the quiz exists and is completed, 404 when the quiz is unknown and *)
(* 409 when it is in_progress; the handler changes no row.                 *)
C6_Response ==
    resp.op = "get_results" =>
        LET q == resp.quiz_id IN
        /\ (resp.code = 200) <=> (q \in QuizIds /\ quizzes[q].status = "completed")
        /\ resp.code = 200 =>
               [quiz_id |-> resp.quiz_id, completed_at |-> resp.completed_at,
                 score |-> resp.score, questions |-> resp.questions]
                    = Get(quizzes[q].results_snapshot)
        /\ q \notin QuizIds => resp.code = 404
        /\ (q \in QuizIds /\ quizzes[q].status = "in_progress") => resp.code = 409

C6_GetResults ==
    /\ []C6_Response
    /\ [][resp'.op = "get_results" => UNCHANGED <<users, quizzes, answers>>]_vars

C6_Witness ==
    /\ resp.op = "get_results" /\ resp.code = 200 /\ resp.quiz_id = 1
    /\ resp.score.correct_count = 1

(* C7: a quiz is created in_progress, its status is always in_progress or  *)
(* completed, and a completed quiz is completed in every later state.      *)
C7_Step ==
    \A q \in DOMAIN quizzes' :
        /\ quizzes'[q].status \in {"in_progress", "completed"}
        /\ q \notin DOMAIN quizzes => quizzes'[q].status = "in_progress"
        /\ (q \in DOMAIN quizzes /\ quizzes[q].status = "completed")
               => quizzes'[q].status = "completed"

C7_StatusOneWay == [][C7_Step]_vars

C7_Witness ==
    /\ \E q \in DOMAIN quizzes : quizzes[q].status = "completed"
    /\ resp.op = "submit_answer" /\ resp.code = 409

(* C8: a completed quiz has, for each question of its content, exactly one *)
(* answer row whose question_index is that question's index.               *)
C8_CompletedFullyAnswered ==
    \A q \in DOMAIN quizzes :
        quizzes[q].status = "completed" =>
            \A i \in DOMAIN quizzes[q].quiz_content.questions :
                Cardinality({a \in AnswersOf(q) :
                    a.question_index
                        = quizzes[q].quiz_content.questions[i].index}) = 1

C8_Witness ==
    /\ quizzes[1].status = "completed"
    /\ Cardinality(AnswersOf(1)) = 5

(* C9: no question of a persisted quiz's public content, and none of the   *)
(* public content a response carries, has a correct_option_key or an       *)
(* explanation key, before and after completion.                           *)
IsRedacted(public) ==
    \A i \in DOMAIN public.questions :
        DOMAIN public.questions[i] \cap {"correct_option_key", "explanation"} = {}

C9_PublicRedacted ==
    /\ \A q \in DOMAIN quizzes : IsRedacted(quizzes[q].quiz_public)
    /\ ( /\ resp.op \in {"create_placeholder_quiz", "create_generated_quiz",
                         "get_quiz"}
         /\ resp.code \in {200, 201} )
       => IsRedacted(resp.quiz_public)

C9_Witness ==
    /\ resp.op = "get_quiz" /\ resp.code = 200
    /\ quizzes[resp.id].status = "completed"
    /\ \A i \in DOMAIN quizzes[resp.id].quiz_content.questions :
         {"correct_option_key", "explanation"}
             \subseteq DOMAIN quizzes[resp.id].quiz_content.questions[i]
    /\ Len(resp.quiz_public.questions) = 5

(* C10: the content of every persisted quiz has exactly 5 questions, each  *)
(* with exactly 4 options whose keys are A, B, C and D once each and a     *)
(* correct_option_key among them, and total_questions is 5.                *)
ContentIsValid(content) ==
    /\ Len(content.questions) = 5
    /\ \A i \in DOMAIN content.questions :
         LET question == content.questions[i] IN
         /\ Has(question, "options")
         /\ Len(question.options) = 4
         /\ {question.options[j].key : j \in 1..4} = {"A", "B", "C", "D"}
         /\ Has(question, "correct_option_key")
         /\ question.correct_option_key
                \in {question.options[j].key : j \in 1..4}

C10_PersistedContentValid ==
    \A q \in DOMAIN quizzes :
        /\ ContentIsValid(quizzes[q].quiz_content)
        /\ quizzes[q].total_questions = 5

(* an AI-generated quiz (its title rewritten) is persisted *)
C10_Witness ==
    /\ resp.op = "create_generated_quiz" /\ resp.code = 201
    /\ quizzes[resp.id].quiz_content.title = <<"G", "o">> \o QuizSuffix
    /\ IsNone(resp.message)

(***************************************************************************)
(* The validator's errors, stated on the steps of POST /quizzes: a step    *)
(* that is create_quiz for an existing user and a given payload.           *)
(***************************************************************************)
CreateQuizStep(user_id, quiz_content) ==
    /\ UserExists(user_id)
    /\ create_quiz(user_id, <<"Math and space">>, quiz_content)

Rejected(detail) ==
    /\ resp' = ErrorResp("create_quiz", 400, detail)
    /\ UNCHANGED <<users, quizzes, answers>>

WrongCountContents ==
    {c \in ValidContents \cup InvalidContents :
        Has(c, "questions") /\ Len(c.questions) # 5}

(* C11: a payload whose questions list has a length other than 5 (0        *)
(* included) is rejected with 400 "quiz_content must include exactly 5     *)
(* questions" and nothing is persisted.                                    *)
C11_Step ==
    resp'.op = "create_quiz" =>
        \A user_id \in UserIdInputs, quiz_content \in WrongCountContents :
            CreateQuizStep(user_id, quiz_content) => Rejected(ErrFiveQuestions)

C11_WrongCountRejected == [][C11_Step]_vars

(* C11 as amended: a payload whose questions list has a length n >= 1      *)
(* other than 5 is rejected with 400 "quiz_content must include exactly 5  *)
(* questions", an empty list with 400 "quiz_content must include a         *)
(* non-empty questions array"; in both cases nothing is persisted.         *)
C11_AmendedStep ==
    resp'.op = "create_quiz" =>
        \A user_id \in UserIdInputs, quiz_content \in WrongCountContents :
            CreateQuizStep(user_id, quiz_content) =>
                IF Len(quiz_content.questions) = 0
                THEN Rejected(ErrNonEmpty)
                ELSE Rejected(ErrFiveQuestions)

C11_WrongCountRejectedAmended == [][C11_AmendedStep]_vars

(* a payload of the wrong length was rejected for an existing user *)
C11_Witness ==
    /\ users # <<>>
    /\ resp = ErrorResp("create_quiz", 400, ErrFiveQuestions)
    /\ quizzes = <<>>

(* a question that passes every check of the validator *)
QuestionIsValid(question) ==
    /\ Has(question, "options")
    /\ Len(question.options) = 4
    /\ \A j \in 1..4 :
         /\ DOMAIN question.options[j] = {"key", "text"}
         /\ question.options[j].key # ""
         /\ question.options[j].text # <<>>
    /\ {question.options[j].key : j \in 1..4} = {"A", "B", "C", "D"}
    /\ Has(question, "correct_option_key")
    /\ question.correct_option_key \in {"A", "B", "C", "D"}

FiveQuestionContents ==
    {c \in ValidContents \cup InvalidContents :
        Has(c, "questions") /\ Len(c.questions) = 5}

OptionCountIsWrong(question) ==
    Has(question, "options") /\ Len(question.options) # 4

(* C12: a 5-question payload in which some question's options list has a   *)
(* length other than 4 is rejected with 400 "each question must include 4  *)
(* options".                                                               *)
C12_Contents ==
    {c \in FiveQuestionContents :
        \E i \in 1..5 : OptionCountIsWrong(c.questions[i])}

C12_Step ==
    resp'.op = "create_quiz" =>
        \A user_id \in UserIdInputs, quiz_content \in C12_Contents :
            CreateQuizStep(user_id, quiz_content) => Rejected(ErrFourOptions)

C12_WrongOptionCountRejected == [][C12_Step]_vars

(* C12 as amended: a 5-question payload is rejected with 400 "each         *)
(* question must include 4 options" when the first of its questions to     *)
(* fail a check has an options list of a length other than 4.              *)
C12_AmendedContents ==
    {c \in FiveQuestionContents :
        \E i \in 1..5 :
            /\ OptionCountIsWrong(c.questions[i])
            /\ \A j \in 1..(i - 1) : QuestionIsValid(c.questions[j])}

C12_AmendedStep ==
    resp'.op = "create_quiz" =>
        \A user_id \in UserIdInputs, quiz_content \in C12_AmendedContents :
            CreateQuizStep(user_id, quiz_content) => Rejected(ErrFourOptions)

C12_WrongOptionCountRejectedAmended == [][C12_AmendedStep]_vars

C12_Witness ==
    /\ users # <<>>
    /\ resp = ErrorResp("create_quiz", 400, ErrFourOptions)
    /\ quizzes = <<>>

(* the keys the options of a question carry *)
KeySet(question) ==
    {question.options[j].key :
        j \in {k \in DOMAIN question.options : Has(question.options[k], "key")}}

FourOptionsWrongKeys(question) ==
    /\ Has(question, "options")
    /\ Len(question.options) = 4
    /\ KeySet(question) # {"A", "B", "C", "D"}

OptionsHaveKeyAndText(question) ==
    \A j \in DOMAIN question.options :
        /\ Has(question.options[j], "key") /\ question.options[j].key # ""
        /\ Has(question.options[j], "text") /\ question.options[j].text # <<>>

(* C13: a 5-question payload in which some question has 4 options whose    *)
(* key set is not exactly {A, B, C, D} is rejected with 400 "options must   *)
(* use unique keys A-D".                                                   *)
C13_Contents ==
    {c \in FiveQuestionContents :
        \E i \in 1..5 : FourOptionsWrongKeys(c.questions[i])}

C13_Step ==
    resp'.op = "create_quiz" =>
        \A user_id \in UserIdInputs, quiz_content \in C13_Contents :
            CreateQuizStep(user_id, quiz_content) => Rejected(ErrUniqueKeys)

C13_WrongKeysRejected == [][C13_Step]_vars

(* C13 as amended: a 5-question payload is rejected with 400 "options must *)
(* use unique keys A-D" when the first of its questions to fail a check    *)
(* has 4 options, each with a non-empty key and text, whose key set is not *)
(* exactly {A, B, C, D}.                                                   *)
C13_AmendedContents ==
    {c \in FiveQuestionContents :
        \E i \in 1..5 :
            /\ FourOptionsWrongKeys(c.questions[i])
            /\ OptionsHaveKeyAndText(c.questions[i])
            /\ \A j \in 1..(i - 1) : QuestionIsValid(c.questions[j])}

C13_AmendedStep ==
    resp'.op = "create_quiz" =>
        \A user_id \in UserIdInputs, quiz_content \in C13_AmendedContents :
            CreateQuizStep(user_id, quiz_content) => Rejected(ErrUniqueKeys)

C13_WrongKeysRejectedAmended == [][C13_AmendedStep]_vars

C13_Witness ==
    /\ users # <<>>
    /\ resp = ErrorResp("create_quiz", 400, ErrUniqueKeys)
    /\ quizzes = <<>>

OptionsAreValid(question) ==
    /\ Has(question, "options")
    /\ Len(question.options) = 4
    /\ OptionsHaveKeyAndText(question)
    /\ KeySet(question) = {"A", "B", "C", "D"}

CorrectKeyIsWrong(question) ==
    \/ ~Has(question, "correct_option_key")
    \/ question.correct_option_key \notin KeySet(question)

(* C14: a 5-question payload whose questions all have valid options A-D    *)
(* and in which some question's correct_option_key is absent or not one of *)
(* its option keys is rejected with 400 "correct_option_key must match one *)
(* of the option keys", and nothing is persisted.                          *)
C14_Contents ==
    {c \in FiveQuestionContents :
        /\ \A i \in 1..5 : OptionsAreValid(c.questions[i])
        /\ \E i \in 1..5 : CorrectKeyIsWrong(c.questions[i])}

C14_Step ==
    resp'.op = "create_quiz" =>
        \A user_id \in UserIdInputs, quiz_content \in C14_Contents :
            CreateQuizStep(user_id, quiz_content) => Rejected(ErrCorrectKey)

C14_WrongCorrectKeyRejected == [][C14_Step]_vars

C14_Witness ==
    /\ users # <<>>
    /\ resp = ErrorResp("create_quiz", 400, ErrCorrectKey)
    /\ quizzes = <<>>

(* C15: the questions of an accepted payload are persisted in the order of *)
(* the input; a question without an index gets its 1-based position as     *)
(* index, a question with an index keeps it, and nothing else of a         *)
(* question changes.                                                       *)
C15_Step ==
    resp'.op = "create_quiz" =>
        \A user_id \in UserIdInputs, quiz_content \in ValidContents :
            ( CreateQuizStep(user_id, quiz_content) /\ resp'.code = 201 ) =>
                LET given == quiz_content.questions
                    stored == quizzes'[resp'.id].quiz_content.questions
                IN  /\ Len(quizzes') = Len(quizzes) + 1
                    /\ resp'.id = Len(quizzes')
                    /\ Len(stored) = Len(given)
                    /\ \A i \in 1..Len(given) :
                         /\ Pop(stored[i], {"index"}) = Pop(given[i], {"index"})
                         /\ Has(stored[i], "index")
                         /\ stored[i].index =
                                IF Has(given[i], "index") THEN given[i].index ELSE i

C15_OrderAndIndices == [][C15_Step]_vars

(* the payload whose second question alone carries an index, 1 *)
C15_Witness ==
    /\ resp.op = "create_quiz" /\ resp.code = 201
    /\ [i \in 1..5 |-> quizzes[resp.id].quiz_content.questions[i].index]
           = <<1, 1, 3, 4, 5>>

(* no question of the quiz carries the index *)
NoSuchQuestion(quiz_id, question_index) ==
    /\ quiz_id \in QuizIds
    /\ quizzes[quiz_id].status = "in_progress"
    /\ \A i \in DOMAIN quizzes[quiz_id].quiz_content.questions :
           quizzes[quiz_id].quiz_content.questions[i].index # question_index

(* the step is the first step of a submit_answer call on quiz_id served by *)
(* worker p: it passes the checks or responds to worker p                  *)
BeginsSubmit(p, quiz_id) ==
    /\ FirstIdle(p)
    /\ \/ pc'[p] = "insert" /\ req'[p].quiz_id = quiz_id
       \/ /\ resp'.op = "submit_answer"
          /\ resp'.worker = p
          /\ resp'.quiz_id = quiz_id

(* C16: submit_answer with a question_index that matches no question of an *)
(* in_progress quiz is answered 404, as for a missing quiz, and records no  *)
(* answer.                                                                 *)
C16_Step ==
    \A p \in Procs, quiz_id \in QuizIdInputs :
      BeginsSubmit(p, quiz_id) =>
        \A question_index \in QuestionIndexInputs,
           selected_key \in SelectedKeyInputs :
            ( /\ NoSuchQuestion(quiz_id, question_index)
              /\ SubmitBegin(p, quiz_id, question_index, selected_key) )
            => /\ resp'.code = 404
               /\ pc'[p] = "idle"
               /\ answers' = answers

C16_UnknownQuestionNotFound == [][C16_Step]_vars

(* C16 as amended: submit_answer with a question_index >= 1 that matches   *)
(* no question of an in_progress quiz is answered 400 "question_index not  *)
(* found" (a question_index below 1 is refused with 422 by the request     *)
(* schema) and records no answer; a missing quiz is answered 404.          *)
C16_AmendedStep ==
    \A p \in Procs, quiz_id \in QuizIdInputs :
      BeginsSubmit(p, quiz_id) =>
        \A question_index \in QuestionIndexInputs,
           selected_key \in SelectedKeyInputs :
            /\ ( /\ NoSuchQuestion(quiz_id, question_index)
                 /\ SubmitBegin(p, quiz_id, question_index, selected_key) )
               => /\ IF question_index >= 1
                     THEN resp' = SubmitError(p, quiz_id, 400,
                                              "question_index not found")
                     ELSE resp'.code = 422
                  /\ pc'[p] = "idle"
                  /\ answers' = answers
            /\ ( /\ quiz_id \notin QuizIds
                 /\ question_index >= 1
                 /\ SubmitBegin(p, quiz_id, question_index, selected_key) )
               => /\ resp' = SubmitError(p, quiz_id, 404, "quiz not found")
                  /\ answers' = answers

C16_UnknownQuestionRejected == [][C16_AmendedStep]_vars

(* refused on a quiz that already has answers and is still in progress *)
C16_Witness ==
    /\ resp.op = "submit_answer" /\ resp.code = 400
    /\ resp.detail = "question_index not found"
    /\ resp.quiz_id \in QuizIds
    /\ quizzes[resp.quiz_id].status = "in_progress"
    /\ AnswersOf(resp.quiz_id) # {}
    /\ AllIdle

(* C17: a step that answers a request with 400, 404 or 409 leaves users,   *)
(* quizzes and answers unchanged, and the request has written nothing      *)
(* before it: the error is raised at the request's first statement or, for *)
(* submit_answer, at its insert, whose first step writes nothing.          *)
C17_Step ==
    /\ ( resp'.op # "none" /\ resp'.code \in {400, 404, 409} ) =>
           /\ UNCHANGED <<users, quizzes, answers>>
           /\ resp'.op = "submit_answer" => pc[resp'.worker] \in {"idle", "insert"}
    /\ \A p \in Procs :
           pc[p] = "idle" /\ pc'[p] = "insert" => UNCHANGED <<users, quizzes, answers>>

C17_ErrorsChangeNothing == [][C17_Step]_vars

(* a second answer to an answered question was refused, with another key *)
C17_Witness ==
    /\ resp.op = "submit_answer" /\ resp.code = 409
    /\ resp.detail = "answer already submitted"
    /\ \E a \in AnswersOf(resp.quiz_id) : a.selected_option_key = "A"
    /\ \E a \in AnswersOf(resp.quiz_id) : a.selected_option_key = "Z"

(* C18: no two users share a username; a POST /users whose username is     *)
(* stored is refused with 409 "username already exists" and changes no     *)
(* user, and one whose username is not stored adds exactly that user, so   *)
(* of the requests with one username exactly the first to commit creates.  *)
C18_Unique ==
    \A i, j \in DOMAIN users : users[i].username = users[j].username => i = j

C18_Step ==
    resp'.op = "create_user" =>
        \A username \in Usernames :
            create_user(username) =>
                IF \E i \in DOMAIN users : users[i].username = username
                THEN /\ resp' = ErrorResp("create_user", 409,
                                          "username already exists")
                     /\ users' = users
                ELSE /\ resp'.code = 201
                     /\ resp'.username = username
                     /\ Len(users') = Len(users) + 1
                     /\ SubSeq(users', 1, Len(users)) = users
                     /\ users'[Len(users')].username = username
                     /\ users'[Len(users')].id = resp'.id

C18_UsernamesUnique == []C18_Unique /\ [][C18_Step]_vars

(* the first user's name was posted again after a second user was created *)
C18_Witness ==
    /\ Len(users) = 2
    /\ resp = ErrorResp("create_user", 409, "username already exists")

(***************************************************************************)
(* POST /quizzes/generate for an existing user.                            *)
(***************************************************************************)
GenerateStep(user_id, c) ==
    /\ UserExists(user_id)
    /\ create_generated_quiz(user_id, c.prompt, c.ai_provider, c.has_key, c.outcome)

(* C19: with a provider and its API key configured and a valid prompt, a   *)
(* provider call that fails, or a response that is not JSON, is answered    *)
(* 502 and no quiz is persisted.                                           *)
C19_Cases ==
    {c \in GenerateCases :
        /\ c.ai_provider \in {"openai", "claude"}
        /\ c.has_key
        /\ validate_quiz_prompt(c.prompt).ok
        /\ c.outcome.kind \in {"request_failed", "not_json"}}

C19_Step ==
    resp'.op = "create_generated_quiz" =>
        \A user_id \in UserIdInputs, c \in C19_Cases :
            GenerateStep(user_id, c) =>
                /\ resp'.code = 502
                /\ UNCHANGED <<users, quizzes, answers>>

C19_ProviderFailureIs502 == [][C19_Step]_vars

(* C20: with AI_PROVIDER neither openai nor claude, a request of an         *)
(* existing user with a valid prompt is answered 503 and no quiz is        *)
(* persisted.                                                              *)
C20_Cases ==
    {c \in GenerateCases :
        /\ c.ai_provider \notin {"openai", "claude"}
        /\ validate_quiz_prompt(c.prompt).ok}

C20_Step ==
    resp'.op = "create_generated_quiz" =>
        \A user_id \in UserIdInputs, c \in C20_Cases :
            GenerateStep(user_id, c) =>
                /\ resp'.code = 503
                /\ UNCHANGED <<users, quizzes, answers>>

C20_MisconfiguredIs503 == [][C20_Step]_vars

(* C21: with a provider selected and no API key for it, a request of an    *)
(* existing user whose prompt validates to "Go" persists exactly one quiz, *)
(* in_progress, whose content is the placeholder quiz for "Go" with the    *)
(* indices 1..5, whatever the provider would have returned, and is         *)
(* answered 201 with the message naming the provider's key variable.       *)
C21_Cases ==
    {c \in GenerateCases :
        /\ c.ai_provider \in {"openai", "claude"}
        /\ ~c.has_key
        /\ c.prompt \in { <<"G", "o">>, << " ", "G", "o", "\t">> }}

C21_Message(ai_provider) ==
    "Unable to create quiz: "
        \o (IF ai_provider = "claude" THEN "CLAUDE_API_KEY" ELSE "OPENAI_API_KEY")
        \o " is not configured. Defaulting to placeholder quiz."

C21_Step ==
    resp'.op = "create_generated_quiz" =>
        \A user_id \in UserIdInputs, c \in C21_Cases :
            GenerateStep(user_id, c) =>
                LET placeholder == build_placeholder_quiz_content(<<"G", "o">>)
                    quiz == quizzes'[Len(quizzes')]
                IN  /\ Len(quizzes') = Len(quizzes) + 1
                    /\ SubSeq(quizzes', 1, Len(quizzes)) = quizzes
                    /\ UNCHANGED <<users, answers>>
                    /\ quiz.status = "in_progress"
                    /\ quiz.user_id = user_id
                    /\ quiz.prompt = <<"G", "o">>
                    /\ quiz.quiz_content.title = <<"G", "o", " Placeholder Quiz">>
                    /\ quiz.quiz_content.questions =
                           [i \in 1..5 |->
                               placeholder.questions[i] @@ ("index" :> i)]
                    /\ resp'.code = 201
                    /\ resp'.id = quiz.id
                    /\ resp'.message = Some(C21_Message(c.ai_provider))

C21_PlaceholderFallback == [][C21_Step]_vars

(* the fallback taken with the claude provider selected *)
C21_Witness ==
    /\ resp.op = "create_generated_quiz" /\ resp.code = 201
    /\ resp.message = Some(C21_Message("claude"))
    /\ quizzes[resp.id].quiz_content.title = <<"G", "o", " Placeholder Quiz">>

(* the positions of a prompt that hold no whitespace, and those where a    *)
(* token starts                                                            *)
TokenChars(prompt) == {i \in DOMAIN prompt : prompt[i] \notin {" ", "\t", "\n"}}

TokenStarts(prompt) ==
    {i \in TokenChars(prompt) : i = 1 \/ (i - 1) \notin TokenChars(prompt)}

AllowedChars ==
    SeqToSet(UpperCase) \cup SeqToSet(LowerCase) \cup Digits \cup {"-"}

(* 1 to 3 tokens, each of allowed characters only *)
PromptIsAcceptable(prompt) ==
    /\ Cardinality(TokenStarts(prompt)) \in 1..3
    /\ \A i \in TokenChars(prompt) : prompt[i] \in AllowedChars

(* the tokens joined by single spaces: the token characters, and one space *)
(* for the first whitespace after a token that is followed by another      *)
TokensJoined(prompt) ==
    LET kept == TokenChars(prompt) \cup
                {i \in DOMAIN prompt \ TokenChars(prompt) :
                    /\ (i - 1) \in TokenChars(prompt)
                    /\ \E j \in TokenChars(prompt) : j > i}
        at(k) == CHOOSE i \in kept : Cardinality({j \in kept : j < i}) = k - 1
    IN  [k \in 1..Cardinality(kept) |->
            IF at(k) \in TokenChars(prompt) THEN prompt[at(k)] ELSE " "]

(* C22: the prompt validator accepts a prompt exactly when it consists of  *)
(* 1 to 3 whitespace-separated tokens of the characters A-Z, a-z, 0-9 and  *)
(* "-"; it then returns the tokens joined by single spaces, and otherwise  *)
(* fails with 400 "prompt must be 1-3 words".                              *)
C22_PromptValidator ==
    mem.stage = "validated" =>
        IF PromptIsAcceptable(mem.prompt)
        THEN mem.result = Ok(TokensJoined(mem.prompt))
        ELSE mem.result = Fail(400, "prompt must be 1-3 words")

(* three tokens separated by several kinds of whitespace were joined *)
C22_Witness ==
    /\ mem.stage = "validated"
    /\ mem.prompt = <<"a", " ", " ", "b", "\n", "c">>
    /\ mem.result = Ok(<<"a", " ", "b", " ", "c">>)

(* C23: in every stored results snapshot the entries follow the questions  *)
(* of the quiz content in order; an entry's selected_option_key and        *)
(* is_correct are those of the recorded answer with the entry's question   *)
(* index (null and false when there is none), and correct_count is the     *)
(* number of entries whose is_correct is true.                             *)
C23_SnapshotMatchesAnswers ==
    \A q \in DOMAIN quizzes :
        ~IsNone(quizzes[q].results_snapshot) =>
            LET snapshot == Get(quizzes[q].results_snapshot)
                questions == quizzes[q].quiz_content.questions
            IN  /\ Len(snapshot.questions) = Len(questions)
                /\ \A i \in DOMAIN questions :
                     LET entry == snapshot.questions[i]
                         given == {a \in AnswersOf(q) :
                                      a.question_index = questions[i].index}
                     IN  /\ entry.index = Some(questions[i].index)
                         /\ entry.prompt = Some(questions[i].prompt)
                         /\ IF given = {}
                            THEN /\ entry.selected_option_key = None
                                 /\ entry.is_correct = FALSE
                            ELSE \A a \in given :
                                   /\ entry.selected_option_key
                                          = Some(a.selected_option_key)
                                   /\ entry.is_correct = a.is_correct
                /\ snapshot.score.correct_count =
                       Cardinality({i \in DOMAIN snapshot.questions :
                                       snapshot.questions[i].is_correct})

(* the quiz whose questions carry the indices 5, 4, 3, 2, 1 was completed  *)
(* with right and wrong answers                                            *)
C23_Witness ==
    /\ ~IsNone(quizzes[1].results_snapshot)
    /\ Get(quizzes[1].results_snapshot).questions[1].index = Some(5)
    /\ \E i, j \in 1..5 :
          /\ Get(quizzes[1].results_snapshot).questions[i].is_correct
          /\ ~Get(quizzes[1].results_snapshot).questions[j].is_correct

(* C24: normalize_quiz_content never mutates its input: for every payload, *)
(* accepted or rejected, every object of the input (the content dict, the  *)
(* questions list, the question dicts, their options lists and the option  *)
(* dicts) is after the call what it was before, and so is the document.    *)
C24_InputNotMutated ==
    mem.stage = "normalized" =>
        /\ \A a \in DOMAIN mem.before : mem.heap[a] = mem.before[a]
        /\ Doc(mem.heap, mem.quiz_content) = Doc(mem.before, mem.quiz_content)

(* an accepted payload whose first question had no index: the returned     *)
(* first question carries index 1                                          *)
C24_Witness ==
    /\ mem.stage = "normalized"
    /\ mem.result.ok
    /\ ~Has(Doc(mem.before, mem.quiz_content).questions[1], "index")
    /\ Doc(mem.heap, mem.result.value).questions[1].index = 1

(* C25: the content returned by normalize_quiz_content is a deep copy of   *)
(* the input: no object (question dict, options list, option dict) can be  *)
(* reached both from the returned content and from the input, so a later   *)
(* in-place change made through the returned content leaves the input      *)
(* document as it was, and a change made through the input leaves the      *)
(* returned document as it was.                                            *)
C25_ReturnedIsDeepCopy ==
    /\ mem.stage = "normalized" /\ mem.result.ok =>
           Reach(mem.heap, mem.result.value)
               \cap Reach(mem.heap, mem.quiz_content) = {}
    /\ mem.stage = "changed" =>
           IF mem.through = "result"
           THEN Doc(mem.heap, mem.quiz_content)
                    = Doc(mem.returned, mem.quiz_content)
           ELSE Doc(mem.heap, mem.result.value)
                    = Doc(mem.returned, mem.result.value)

(* the text occurs, whatever the case of its letters, in the title of the  *)
(* document or in the prompt of one of its questions                       *)
OccursInTitleOrAPrompt(text, document) ==
    \/ Has(document, "title") /\ Contains(Lower(document.title), Lower(text))
    \/ /\ Has(document, "questions")
       /\ \E i \in DOMAIN document.questions :
            /\ Has(document.questions[i], "prompt")
            /\ Contains(Lower(document.questions[i].prompt), Lower(text))

(* C26: for every non-empty prompt and every content, the content returned *)
(* by ensure_prompt_coverage has the trimmed prompt, case-insensitively,   *)
(* in its title or in some question prompt: when the input already has it  *)
(* the output equals the input, otherwise only the title differs and is    *)
(* "{prompt} Quiz"; no object of the input is changed by the call.         *)
C26_PromptCovered ==
    mem.stage = "covered" /\ mem.prompt # <<>> =>
        LET input == Doc(mem.before, mem.quiz_content)
            output == Doc(mem.heap, mem.result)
            prompt_text == Strip(mem.prompt)
        IN  /\ OccursInTitleOrAPrompt(prompt_text, output)
            /\ IF OccursInTitleOrAPrompt(prompt_text, input)
               THEN output = input
               ELSE /\ output.title = prompt_text \o QuizSuffix
                    /\ Pop(output, {"title"}) = Pop(input, {"title"})
            /\ \A a \in DOMAIN mem.before : mem.heap[a] = mem.before[a]

QuestionIndices(quiz) ==
    {quiz.quiz_content.questions[i].index : i \in DOMAIN quiz.quiz_content.questions}

EveryQuestionAnswered(quiz) ==
    \A index \in QuestionIndices(quiz) :
        \E a \in AnswersOf(quiz.id) : a.question_index = index

(* C27: every persisted quiz has five pairwise-distinct question indices,  *)
(* and no quiz is left in_progress once an answer to every one of its      *)
(* questions has been recorded and the requests have returned.             *)
C27_NoStuckQuiz ==
    \A q \in DOMAIN quizzes :
        /\ Cardinality(QuestionIndices(quizzes[q])) = RequiredQuestions
        /\ AllIdle /\ EveryQuestionAnswered(quizzes[q]) =>
               quizzes[q].status = "completed"

(* C28: the list of a user's quizzes reports, for every completed quiz, a  *)
(* score_percent that is not null and a correct_count, both equal to those *)
(* of the stored results snapshot, also when no answer was correct.        *)
C28_ListReportsScore ==
    resp.op = "list_quizzes" =>
        \A out \in resp.results :
            out.status = "completed" =>
                LET score == Get(quizzes[out.id].results_snapshot).score
                IN  /\ ~IsNone(out.score_percent)
                    /\ out.score_percent = Some(score.score_percent)
                    /\ out.correct_count = Some(score.correct_count)

(* C29: the selected_option_key of every recorded answer is one of the     *)
(* option keys of the question it answers (the question of its quiz with   *)
(* the answer's question index).                                           *)
C29_SelectedKeyIsAnOption ==
    \A a \in answers :
        \A i \in DOMAIN quizzes[a.quiz_id].quiz_content.questions :
            LET question == quizzes[a.quiz_id].quiz_content.questions[i]
            IN  question.index = a.question_index =>
                    a.selected_option_key
                        \in SeqToSet(OptionKeySeq(question.options))

(* C30: in every committed state of every quiz the completion fields       *)
(* agree: the status is completed exactly when completed_at is set,        *)
(* exactly when results_snapshot is set, exactly when correct_count is set *)
(* and exactly when score_percent is set.                                  *)
C30_CompletionFieldsAgree ==
    \A q \in DOMAIN quizzes :
        LET completed == quizzes[q].status = "completed"
        IN  /\ quizzes[q].status \in {"in_progress", "completed"}
            /\ completed <=> ~IsNone(quizzes[q].completed_at)
            /\ completed <=> ~IsNone(quizzes[q].results_snapshot)
            /\ completed <=> ~IsNone(quizzes[q].correct_count)
            /\ completed <=> ~IsNone(quizzes[q].score_percent)

(* the first quiz has been completed by one worker while the other, which  *)
(* counted five answers too, is about to write the completion again        *)
C30_Witness ==
    /\ quizzes[1].status = "completed"
    /\ ~IsNone(quizzes[1].results_snapshot)
    /\ \E p \in Procs : pc[p] = "complete" /\ req[p].quiz_id = 1

====
